---- MODULE Spec2Model ----
(***************************************************************************)
(* State-machine model of NGS-Chat-Bots (src/ngs_chat_bots/src/app.rs and  *)
(* twitch_utils.rs): the iced application state `App`, its `update`        *)
(* handlers, the recurring random-message scheduler and the bot registry.  *)
(*                                                                         *)
(* Conventions                                                             *)
(*  - Strings are sequences of one-character strings, so that format!,     *)
(*    trim, split_once and parse are computed character by character.      *)
(*  - Option<T>: None is <<>>, Some(x) is <<x>>.                           *)
(*  - Vec indices are 0-based as in the source; Get(v, i) reads v[i].      *)
(*  - Instants are kept as offsets in seconds relative to the current      *)
(*    clock reading (0 = now, negative = past).  Offsets further than      *)
(*    Horizon seconds ahead are the single value Far; an Instant that is   *)
(*    not in the future is kept at offset 0 (how long ago it was is never  *)
(*    read).  A Tick(now) is handled within the second it was stamped, so  *)
(*    its timestamp is the offset 0.                                       *)
(*  - A panic of the update thread sets `panicked`; the process is gone    *)
(*    and no handler runs afterwards.                                      *)
(***************************************************************************)
EXTENDS Integers, Sequences, FiniteSets, Bags, TLC

\* ------------------------------------------------------------------ bounds
Horizon == 1
MaxPending == 2
MaxLog == 2
MaxSends == 2
MaxProbes == 2
MaxCounter == 4
MaxFires == 2
MaxReads == 3

Far == Horizon + 1

\* ------------------------------------------------------- program constants
DefaultMinInterval == 30
DefaultMaxInterval == 120
DefaultMinBotDelay == 1
DefaultMaxBotDelay == 3
DefaultMultipleBotsCount == 3
BotCounterStart == 1

\* ----------------------------------------------------------------- helpers
None == <<>>
Some(x) == <<x>>

Min2(a, b) == IF a <= b THEN a ELSE b
Max2(a, b) == IF a >= b THEN a ELSE b

\* Vec::get(i)
InRange(v, i) == i >= 0 /\ i < Len(v)
Get(v, i) == v[i + 1]

\* Instant::now() + Duration::from_secs(d), as an offset from now.
After(d) == IF d > Horizon THEN Far ELSE d

\* One second passes: a future offset moves one closer to now.  A Far offset
\* may stay Far or come within the horizon.
Elapse(r) == IF r = Far THEN {Far, Horizon} ELSE {Max2(r - 1, 0)}

IsWhite(c) == c \in {" ", "\t", "\r"}

RECURSIVE TrimStart(_)
TrimStart(s) ==
    IF s = <<>> THEN <<>>
    ELSE IF IsWhite(Head(s)) THEN TrimStart(Tail(s)) ELSE s

RECURSIVE TrimEnd(_)
TrimEnd(s) ==
    IF s = <<>> THEN <<>>
    ELSE IF IsWhite(s[Len(s)]) THEN TrimEnd(SubSeq(s, 1, Len(s) - 1)) ELSE s

\* str::trim
Trim(s) == TrimEnd(TrimStart(s))

\* the last occurrence instead of the first
Find_Last(s, c) ==
    IF \E i \in 1..Len(s) : s[i] = c
    THEN CHOOSE i \in 1..Len(s) : s[i] = c /\ \A j \in (i + 1)..Len(s) : s[j] # c
    ELSE 0

\* index (1-based) of the first occurrence of c in s, 0 when absent: str::find
RECURSIVE FindFrom(_, _, _)
FindFrom(s, c, i) ==
    IF i > Len(s) THEN 0
    ELSE IF s[i] = c THEN i ELSE FindFrom(s, c, i + 1)

Find(s, c) == FindFrom(s, c, 1)

\* str::lines: split at "\n", a final empty piece is dropped, "\r\n" counts
\* as one line ending.
StripCR(l) == IF l # <<>> /\ l[Len(l)] = "\r" THEN SubSeq(l, 1, Len(l) - 1) ELSE l

RECURSIVE LinesFrom(_, _)
LinesFrom(s, cur) ==
    IF s = <<>> THEN (IF cur = <<>> THEN <<>> ELSE <<cur>>)
    ELSE IF Head(s) = "\n" THEN <<StripCR(cur)>> \o LinesFrom(Tail(s), <<>>)
    ELSE LinesFrom(Tail(s), Append(cur, Head(s)))

Lines(s) == LinesFrom(s, <<>>)

Digits == <<"0", "1", "2", "3", "4", "5", "6", "7", "8", "9">>

\* format!("{}", n) for an unsigned integer
RECURSIVE ToDecimal(_)
ToDecimal(n) ==
    IF n < 10 THEN <<Digits[n + 1]>>
    ELSE ToDecimal(n \div 10) \o <<Digits[(n % 10) + 1]>>

IsDigit(c) == \E d \in 1..10 : Digits[d] = c
DigitVal(c) == (CHOOSE d \in 1..10 : Digits[d] = c) - 1

RECURSIVE DecimalValue(_, _)
DecimalValue(s, acc) ==
    IF s = <<>> THEN acc ELSE DecimalValue(Tail(s), acc * 10 + DigitVal(Head(s)))

\* str::parse::<u64>() / parse::<usize>(): Some(value) for a non-empty run of
\* decimal digits (an optional leading "+") that fits 64 bits, None otherwise.
ParseU64(s) ==
    LET body == IF s # <<>> /\ Head(s) = "+" THEN Tail(s) ELSE s
    IN  IF body = <<>> \/ \E i \in 1..Len(body) : ~IsDigit(body[i]) THEN None
        ELSE IF Len(body) > 19 THEN None
        ELSE Some(DecimalValue(body, 0))

\* --------------------------------------------------------- twitch_utils.rs
\* a bot that starts out available
NewBot_Available(name, token) ==
    [name |-> name, token |-> token, available |-> TRUE, enable |-> TRUE,
     chat_history |-> <<>>]

\* Bot::new
NewBot(name, token) ==
    [name |-> name, token |-> token, available |-> FALSE, enable |-> TRUE,
     chat_history |-> <<>>]

SynthName(id) == <<"b", "o", "t", "_">> \o ToDecimal(id)

\* One line of create_bots' filter_map: [bot |-> Option<Bot>, counter |-> n]
BotOfLine(line, counter) ==
    LET p == Find(line, "|") IN
    IF p > 0 THEN
        LET token == SubSeq(line, 1, p - 1)
            name  == Trim(SubSeq(line, p + 1, Len(line)))
        IN  IF name = <<>>
            THEN [bot |-> Some(NewBot(SynthName(counter), Trim(token))),
                  counter |-> counter + 1]
            ELSE [bot |-> Some(NewBot(name, Trim(token))), counter |-> counter]
    ELSE
        LET token == Trim(line) IN
        IF token # <<>>
        THEN [bot |-> Some(NewBot(SynthName(counter), token)), counter |-> counter + 1]
        ELSE [bot |-> None, counter |-> counter]

RECURSIVE BotsOfLines(_, _)
BotsOfLines(ls, counter) ==
    IF ls = <<>> THEN [bots |-> <<>>, counter |-> counter]
    ELSE LET one  == BotOfLine(Head(ls), counter)
             rest == BotsOfLines(Tail(ls), one.counter)
         IN  [bots |-> one.bot \o rest.bots, counter |-> rest.counter]

\* the counter put back to where it was when the call began
create_bots_Rewinds(content, counter) ==
    [bots |-> BotsOfLines(Lines(content), counter).bots, counter |-> counter]

\* create_bots(content): the bots and the value BOT_COUNTER is left with
create_bots(content, counter) == BotsOfLines(Lines(content), counter)


\* ------------------------------------------------------------------ app.rs
VARIABLES
    bots,                    \* App.bots: Vec<Bot>
    BOT_COUNTER,             \* static BOT_COUNTER: AtomicUsize
    chat_history,            \* App.chat_history: the global log
    message,                 \* App.message
    channel,                 \* App.channel
    messages,                \* App.messages: the message pool
    bot_message_input,       \* App.bot_message_input
    random_messages_enabled, \* App.random_messages_enabled
    min_interval,            \* App.min_interval
    max_interval,            \* App.max_interval
    next_message_time,       \* App.next_message_time: Option<Instant>
    last_message_time,       \* App.last_message_time: Option<Instant>
    all_bots_mode,           \* App.all_bots_mode
    simultaneous_mode,       \* App.simultaneous_mode
    min_bot_delay,           \* App.min_bot_delay
    max_bot_delay,           \* App.max_bot_delay
    multiple_bots_mode,      \* App.multiple_bots_mode
    multiple_bots_count,     \* App.multiple_bots_count
    clear_after_send,        \* App.clear_after_send
    pending,                 \* Task::done(Message::SendRandomMessage) not yet handled,
                             \* counted per origin: "tick" (Tick) / "now" (SendRandomMessageNow)
    sends,                   \* bag of launched send_message tasks whose result is not yet handled
    probes,                  \* bag of launched test_connection tasks whose result is not yet handled
    panicked,                \* the update thread panicked
    expiry_fires,            \* history variable: SendRandomMessage emitted by Tick since
                             \* next_message_time was last assigned (kept at most MaxFires)
    send_session,            \* one call of send_message_to_channel: its position, its
                             \* locals and the lines it has written to its connection
    probe_session,           \* one call of test_irc_connection
    viewing_bot_chat         \* App.viewing_bot_chat: Option<usize>

registry == <<bots, BOT_COUNTER>>
inputs   == <<message, channel, messages, bot_message_input>>
sched    == <<random_messages_enabled, min_interval, max_interval,
              next_message_time, last_message_time, expiry_fires>>
modes    == <<all_bots_mode, simultaneous_mode, min_bot_delay, max_bot_delay,
              multiple_bots_mode, multiple_bots_count, clear_after_send>>
runtime  == <<pending, sends, probes, panicked>>
net      == <<send_session, probe_session>>
view     == <<viewing_bot_chat>>
vars     == <<registry, chat_history, inputs, sched, modes, runtime, net, view>>

\* no call of send_message_to_channel / test_irc_connection is running
IdleSend == [pc |-> "idle"]
IdleProbe == [pc |-> "idle"]

Origins == {"tick", "now"}

\* App::new, with BOT_COUNTER at its static initial value
Init ==
    /\ bots = <<>>
    /\ BOT_COUNTER = BotCounterStart
    /\ chat_history = <<>>
    /\ message = <<>>
    /\ channel = <<>>
    /\ messages = <<>>
    /\ bot_message_input = <<>>
    /\ random_messages_enabled = FALSE
    /\ min_interval = DefaultMinInterval
    /\ max_interval = DefaultMaxInterval
    /\ next_message_time = None
    /\ last_message_time = None
    /\ all_bots_mode = FALSE
    /\ simultaneous_mode = TRUE
    /\ min_bot_delay = DefaultMinBotDelay
    /\ max_bot_delay = DefaultMaxBotDelay
    /\ multiple_bots_mode = FALSE
    /\ multiple_bots_count = DefaultMultipleBotsCount
    /\ clear_after_send = FALSE
    /\ pending = [o \in Origins |-> 0]
    /\ sends = EmptyBag
    /\ probes = EmptyBag
    /\ panicked = FALSE
    /\ expiry_fires = 0
    /\ viewing_bot_chat = None
    /\ send_session = IdleSend
    /\ probe_session = IdleProbe


\* ------------------------------------------------------- dispatch helpers
\* the test without its `bot.enable` conjunct
Eligible_IgnoresEnable(bot) == bot.available

\* the eligibility test `bot.available && bot.enable`
Eligible(bot) == bot.available /\ bot.enable

\* the `available_bots` filter: 0-based indices of the eligible bots, ascending
RECURSIVE AvailableFrom(_, _)
AvailableFrom(bs, i) ==
    IF i >= Len(bs) THEN <<>>
    ELSE (IF Eligible(Get(bs, i)) THEN <<i>> ELSE <<>>) \o AvailableFrom(bs, i + 1)

\* the filter left out: every index
available_bots_Unfiltered(bs) == [k \in 1..Len(bs) |-> k - 1]

available_bots(bs) == AvailableFrom(bs, 0)

Dice == "@"
Cross == "X"

\* format!("[{}] {}", name, message)
DirectEntry(name, msg) == <<"[">> \o name \o <<"]", " ">> \o msg
\* format!("[<die> {}] {}", name, message)
DiceEntry(name, msg) == <<"[", Dice, " ">> \o name \o <<"]", " ">> \o msg
\* format!("<cross> Error: {}", error)
ErrorEntry(error) == <<Cross, " ", "E", "r", "r", "o", "r", ":", " ">> \o error

AttemptEntry(dice, name, msg) ==
    IF dice THEN DiceEntry(name, msg) ELSE DirectEntry(name, msg)

\* the push left out
add_to_history_Dropped(bs, i, entry) == bs

\* Bot::add_to_history on bots[i]
add_to_history(bs, i, entry) ==
    [bs EXCEPT ![i + 1].chat_history = Append(@, entry)]

\* the attempt entries of a dispatch, pushed target by target to the global
\* log and to the target's own history
RECURSIVE PushAttempts(_, _, _, _, _)
PushAttempts(bs, log, targets, msgs, dice) ==
    IF targets = <<>> THEN [bots |-> bs, log |-> log]
    ELSE LET i == Head(targets)
             e == AttemptEntry(dice, Get(bs, i).name, Head(msgs))
         IN  PushAttempts(add_to_history(bs, i, e), Append(log, e),
                          Tail(targets), Tail(msgs), dice)

\* the future given to Task::perform: bot_clone.send_message(&channel, &msg)
\* after `delay` seconds of sleep, reporting MessageSent(index, result)
SendTask(bs, i, chan, msg, delay) ==
    [index |-> i, name |-> Get(bs, i).name, token |-> Get(bs, i).token,
     channel |-> chan, message |-> msg, delay |-> delay]

RECURSIVE TasksFrom(_, _, _, _, _, _)
TasksFrom(bs, targets, msgs, chan, delays, k) ==
    IF k > Len(targets) THEN EmptyBag
    ELSE SetToBag({SendTask(bs, targets[k], chan, msgs[k], delays[k])})
         (+) TasksFrom(bs, targets, msgs, chan, delays, k + 1)

\* the delay without its factor delay_index
StaggerDelay_Unscaled(d, delay_index) == After(d)

\* rng.random_range(min..=max) * delay_index, as the offset of the wake-up
StaggerDelay(d, delay_index) == After(d * delay_index)

\* rng.random_range(lo..=hi) panics on an empty range
EmptyRange(lo, hi) == lo > hi

\* One multi-target launch loop (targets in selection order, msgs[k] for
\* targets[k]): every target gets its attempt entry and one send task.  In
\* staggered mode iteration k draws its own d from the delay range; with an
\* empty delay range the first iteration panics after pushing its entry.
\* The set of possible results [bots, log, sends, panicked].
LaunchAll(targets, msgs, dice) ==
    IF ~simultaneous_mode /\ EmptyRange(min_bot_delay, max_bot_delay)
    THEN LET r == PushAttempts(bots, chat_history, <<Head(targets)>>, <<Head(msgs)>>, dice)
         IN  {[bots |-> r.bots, log |-> r.log, sends |-> sends, panicked |-> TRUE]}
    ELSE LET r == PushAttempts(bots, chat_history, targets, msgs, dice)
             range == IF simultaneous_mode THEN {0} ELSE min_bot_delay..max_bot_delay
         IN  {[bots |-> r.bots, log |-> r.log, panicked |-> FALSE,
               sends |-> sends (+) TasksFrom(bots, targets, msgs, channel,
                            [k \in 1..Len(targets) |->
                                IF simultaneous_mode THEN 0
                                ELSE StaggerDelay(ds[k], k - 1)], 1)]
              : ds \in [1..Len(targets) -> range]}

\* the single send launched twice
LaunchOne_Twice(i, msg, dice) ==
    LET r == PushAttempts(bots, chat_history, <<i>>, <<msg>>, dice)
        task == SendTask(bots, i, channel, msg, 0)
    IN  {[bots |-> r.bots, log |-> r.log, panicked |-> FALSE,
          sends |-> sends (+) SetToBag({task}) (+) SetToBag({task})]}

\* A single-target launch: attempt entry, then Task::perform without delay.
LaunchOne(i, msg, dice) ==
    LET r == PushAttempts(bots, chat_history, <<i>>, <<msg>>, dice)
    IN  {[bots |-> r.bots, log |-> r.log, panicked |-> FALSE,
          sends |-> sends (+) SetToBag({SendTask(bots, i, channel, msg, 0)})]}

\* the handler takes result r of a launch
Launched(r) ==
    /\ bots' = r.bots
    /\ chat_history' = r.log
    /\ sends' = r.sends

Range(f) == {f[x] : x \in DOMAIN f}

\* every order a shuffle can leave the slice in
Perms(s) ==
    {[k \in 1..Len(s) |-> s[f[k]]] :
        f \in {g \in [1..Len(s) -> 1..Len(s)] : \A a, b \in 1..Len(s) : g[a] = g[b] => a = b}}

\* the model keeps at most MaxLog entries per log and MaxSends sends in flight
WithinBounds ==
    /\ Len(chat_history') <= MaxLog
    /\ \A k \in 1..Len(bots') : Len(bots'[k].chat_history) <= MaxLog
    /\ BagCardinality(sends') <= MaxSends


\* --------------------------------------------------------------- scheduler
\* the comparison the wrong way round
TickDue_Reversed(now, next_time) == now <= next_time

\* `now >= next_time` of the Tick handler
TickDue(now, next_time) == now >= next_time

\* App::schedule_next_message: random_range(min_interval..=max_interval)
\* seconds from Instant::now(); the empty range panics before the assignment.
schedule_next_message ==
    IF EmptyRange(min_interval, max_interval)
    THEN /\ panicked' = TRUE
         /\ UNCHANGED <<next_message_time, expiry_fires>>
    ELSE /\ \E interval \in min_interval..max_interval :
                next_message_time' = Some(After(interval))
         /\ expiry_fires' = 0
         /\ UNCHANGED panicked

\* Message::ToggleRandomMessages(enabled)
ToggleRandomMessages(enabled) ==
    /\ ~panicked
    /\ UNCHANGED <<net, view>>
    /\ random_messages_enabled' = enabled
    /\ IF enabled
       THEN schedule_next_message
       ELSE /\ next_message_time' = None
            /\ expiry_fires' = 0
            /\ UNCHANGED panicked
    /\ UNCHANGED <<registry, chat_history, inputs, modes, min_interval, max_interval,
                   last_message_time, pending, sends, probes>>

\* Message::MinIntervalUpdated(value)
\* the new bound applied at once to the pending fire
MinIntervalUpdated_Reschedules(value) ==
    /\ ~panicked
    /\ UNCHANGED <<net, view>>
    /\ min_interval' = IF ParseU64(value) # None THEN ParseU64(value)[1] ELSE min_interval
    /\ next_message_time' = IF next_message_time # None /\ ParseU64(value) # None
                            THEN Some(After(ParseU64(value)[1])) ELSE next_message_time
    /\ UNCHANGED <<registry, chat_history, inputs, modes, runtime, random_messages_enabled,
                   max_interval, last_message_time, expiry_fires>>

MinIntervalUpdated(value) ==
    /\ ~panicked
    /\ UNCHANGED <<net, view>>
    /\ min_interval' = IF ParseU64(value) # None THEN ParseU64(value)[1] ELSE min_interval
    /\ UNCHANGED <<registry, chat_history, inputs, modes, runtime, random_messages_enabled,
                   max_interval, next_message_time, last_message_time, expiry_fires>>

\* Message::MaxIntervalUpdated(value)
MaxIntervalUpdated(value) ==
    /\ ~panicked
    /\ UNCHANGED <<net, view>>
    /\ max_interval' = IF ParseU64(value) # None THEN ParseU64(value)[1] ELSE max_interval
    /\ UNCHANGED <<registry, chat_history, inputs, modes, runtime, random_messages_enabled,
                   min_interval, next_message_time, last_message_time, expiry_fires>>

\* Message::Tick(now): emits Task::done(Message::SendRandomMessage) when due
Tick(now) ==
    /\ ~panicked
    /\ UNCHANGED <<net, view>>
    /\ IF /\ random_messages_enabled
          /\ next_message_time # None
          /\ TickDue(now, next_message_time[1])
       THEN /\ pending["tick"] + pending["now"] < MaxPending
            /\ pending' = [pending EXCEPT !["tick"] = @ + 1]
            /\ expiry_fires' = Min2(expiry_fires + 1, MaxFires)
       ELSE UNCHANGED <<pending, expiry_fires>>
    /\ UNCHANGED <<registry, chat_history, inputs, modes, sends, probes, panicked,
                   random_messages_enabled, min_interval, max_interval,
                   next_message_time, last_message_time>>

\* Message::SendRandomMessageNow
SendRandomMessageNow ==
    /\ ~panicked
    /\ UNCHANGED <<net, view>>
    /\ pending["tick"] + pending["now"] < MaxPending
    /\ next_message_time' = None
    /\ expiry_fires' = 0
    /\ pending' = [pending EXCEPT !["now"] = @ + 1]
    /\ UNCHANGED <<registry, chat_history, inputs, modes, sends, probes, panicked,
                   random_messages_enabled, min_interval, max_interval, last_message_time>>

\* targets of the multiple-bots branch: the first bots_to_use entries of a
\* shuffle of available_bots
SubsetTargets(avail, count) ==
    LET bots_to_use == Min2(count, Len(avail))
    IN  {SubSeq(p, 1, bots_to_use) : p \in Perms(avail)}

\* message of iteration i (0-based) of the multiple-bots branch
SubsetMessage(pool, i) ==
    IF Len(pool) > i
    THEN {p[(i % Len(p)) + 1] : p \in Perms(pool)}
    ELSE {pool[j] : j \in 1..Len(pool)}

SubsetMessages(pool, n) ==
    {m \in [1..n -> Range(pool)] : \A k \in 1..n : m[k] \in SubsetMessage(pool, k - 1)}

\* the possible launches of one SendRandomMessage that gets past its early returns
RandomLaunches(avail) ==
    IF multiple_bots_mode
    THEN UNION {LaunchAll(t, m, TRUE) :
                   t \in SubsetTargets(avail, multiple_bots_count),
                   m \in SubsetMessages(messages, Min2(multiple_bots_count, Len(avail)))}
    ELSE IF all_bots_mode
    THEN UNION {LaunchAll(avail, [k \in 1..Len(avail) |-> messages[j]], TRUE) :
                   j \in 1..Len(messages)}
    ELSE UNION {LaunchOne(avail[b], messages[j], TRUE) :
                   b \in 1..Len(avail), j \in 1..Len(messages)}

\* Message::SendRandomMessage, delivered from origin o
SendRandomMessage(o) ==
    /\ ~panicked
    /\ UNCHANGED <<net, view>>
    /\ pending[o] > 0
    /\ pending' = [pending EXCEPT ![o] = @ - 1]
    /\ IF messages = <<>> \/ channel = <<>> \/ available_bots(bots) = <<>>
       THEN UNCHANGED <<bots, chat_history, sends, panicked, next_message_time,
                        last_message_time, expiry_fires>>
       ELSE \E r \in RandomLaunches(available_bots(bots)) :
              /\ bots' = r.bots
              /\ chat_history' = r.log
              \* the tasks are handed to the runtime by the handler's return,
              \* which a panic in schedule_next_message never reaches
              /\ sends' = IF random_messages_enabled /\ EmptyRange(min_interval, max_interval)
                          THEN sends ELSE r.sends
              /\ IF r.panicked
                 THEN /\ panicked' = TRUE
                      /\ UNCHANGED <<next_message_time, last_message_time, expiry_fires>>
                 ELSE /\ last_message_time' = Some(0)
                      /\ IF random_messages_enabled
                         THEN schedule_next_message
                         ELSE UNCHANGED <<next_message_time, expiry_fires, panicked>>
    /\ WithinBounds
    /\ UNCHANGED <<BOT_COUNTER, inputs, modes, probes, random_messages_enabled,
                   min_interval, max_interval>>


\* ---------------------------------------------------------------- registry
\* Message::LoadedConfig(content)
LoadedConfig(content) ==
    /\ ~panicked
    /\ UNCHANGED <<net, view>>
    /\ LET r == create_bots(content, BOT_COUNTER)
       IN  /\ r.counter <= MaxCounter
           /\ bots' = r.bots
           /\ BOT_COUNTER' = r.counter
    /\ UNCHANGED <<chat_history, inputs, sched, modes, runtime>>

\* the future of one probe: bot_clone.test_connection(), reporting BotChecked(index, _)
ProbeTask(bs, i) == [index |-> i, name |-> Get(bs, i).name, token |-> Get(bs, i).token]

RECURSIVE ProbesFrom(_, _)
ProbesFrom(bs, i) ==
    IF i >= Len(bs) THEN EmptyBag
    ELSE SetToBag({ProbeTask(bs, i)}) (+) ProbesFrom(bs, i + 1)

\* Message::CheckBotsPress
CheckBotsPress ==
    /\ ~panicked
    /\ UNCHANGED <<net, view>>
    /\ probes' = probes (+) ProbesFrom(bots, 0)
    /\ BagCardinality(probes') <= MaxProbes
    /\ UNCHANGED <<registry, chat_history, inputs, sched, modes, pending, sends, panicked>>

\* Bot::set_available through `self.bots.get_mut(index)`
set_available(bs, index, flag) ==
    IF InRange(bs, index) THEN [bs EXCEPT ![index + 1].available = flag] ELSE bs

\* Bot::set_enabled through `self.bots.get_mut(index)`
set_enabled(bs, index, enabled) ==
    IF InRange(bs, index) THEN [bs EXCEPT ![index + 1].enable = enabled] ELSE bs

\* Message::BotChecked(index, flag): the result of probe task p
BotChecked(p, flag) ==
    /\ ~panicked
    /\ UNCHANGED <<net, view>>
    /\ BagIn(p, probes)
    /\ probes' = probes (-) SetToBag({p})
    /\ bots' = set_available(bots, p.index, flag)
    /\ UNCHANGED <<BOT_COUNTER, chat_history, inputs, sched, modes, pending, sends, panicked>>

\* Message::ToggleBotEnabled(index, enabled)
\* disabling a bot also withdraws the sends launched for it
ToggleBotEnabled_Cancels(index, enabled) ==
    /\ ~panicked
    /\ UNCHANGED <<net, view>>
    /\ bots' = set_enabled(bots, index, enabled)
    /\ sends' = IF enabled THEN sends
                ELSE [t \in {u \in BagToSet(sends) : u.index # index} |-> sends[t]]
    /\ UNCHANGED <<BOT_COUNTER, chat_history, inputs, sched, modes, pending, probes,
                   panicked>>

ToggleBotEnabled(index, enabled) ==
    /\ ~panicked
    /\ UNCHANGED <<net, view>>
    /\ bots' = set_enabled(bots, index, enabled)
    /\ UNCHANGED <<BOT_COUNTER, chat_history, inputs, sched, modes, runtime>>

\* ------------------------------------------------------------ user inputs
\* Message::MessageUpdated(message)
MessageUpdated(m) ==
    /\ ~panicked
    /\ UNCHANGED <<net, view>>
    /\ message' = m
    /\ UNCHANGED <<registry, chat_history, channel, messages, bot_message_input,
                   sched, modes, runtime>>

\* Message::ChannelNameUpdated(name)
ChannelNameUpdated(name) ==
    /\ ~panicked
    /\ UNCHANGED <<net, view>>
    /\ channel' = name
    /\ UNCHANGED <<registry, chat_history, message, messages, bot_message_input,
                   sched, modes, runtime>>

\* Message::BotMessageUpdated(msg)
BotMessageUpdated(msg) ==
    /\ ~panicked
    /\ UNCHANGED <<net, view>>
    /\ bot_message_input' = msg
    /\ UNCHANGED <<registry, chat_history, message, channel, messages, sched, modes, runtime>>

\* `.lines().filter(|line| !line.trim().is_empty())`
NonBlankLines(text) == SelectSeq(Lines(text), LAMBDA l : Trim(l) # <<>>)

\* Message::LoadedMessages(text) and Message::MessagesEditorAction (the
\* editor's text after the action): the pool is the non-blank lines
LoadedMessages(text) ==
    /\ ~panicked
    /\ UNCHANGED <<net, view>>
    /\ messages' = NonBlankLines(text)
    /\ UNCHANGED <<registry, chat_history, message, channel, bot_message_input,
                   sched, modes, runtime>>

\* ------------------------------------------------------- direct dispatches
\* `if self.clear_after_send { self.message.clear(); }`
AfterSend(m) == IF clear_after_send THEN <<>> ELSE m

\* Message::SendMessage(index)
SendMessage(index) ==
    /\ ~panicked
    /\ UNCHANGED <<net, view>>
    /\ IF InRange(bots, index) /\ Eligible(Get(bots, index))
       THEN /\ \E r \in LaunchOne(index, message, FALSE) : Launched(r)
            /\ message' = AfterSend(message)
       ELSE UNCHANGED <<bots, chat_history, sends, message>>
    /\ WithinBounds
    /\ UNCHANGED <<BOT_COUNTER, channel, messages, bot_message_input, sched, modes,
                   pending, probes, panicked>>

\* Message::SendBotMessage(index)
SendBotMessage(index) ==
    /\ ~panicked
    /\ UNCHANGED <<net, view>>
    /\ IF /\ bot_message_input # <<>>
          /\ channel # <<>>
          /\ InRange(bots, index)
          /\ Eligible(Get(bots, index))
       THEN /\ \E r \in LaunchOne(index, bot_message_input, FALSE) : Launched(r)
            /\ bot_message_input' = <<>>
       ELSE UNCHANGED <<bots, chat_history, sends, bot_message_input>>
    /\ WithinBounds
    /\ UNCHANGED <<BOT_COUNTER, message, channel, messages, sched, modes,
                   pending, probes, panicked>>

\* Message::SendMessageRandomBot
SendMessageRandomBot ==
    /\ ~panicked
    /\ UNCHANGED <<net, view>>
    /\ IF message # <<>> /\ channel # <<>> /\ available_bots(bots) # <<>>
       THEN /\ \E b \in 1..Len(available_bots(bots)) :
                    \E r \in LaunchOne(available_bots(bots)[b], message, TRUE) : Launched(r)
            /\ message' = AfterSend(message)
       ELSE UNCHANGED <<bots, chat_history, sends, message>>
    /\ WithinBounds
    /\ UNCHANGED <<BOT_COUNTER, channel, messages, bot_message_input, sched, modes,
                   pending, probes, panicked>>

\* Message::SendMessageAllBots
SendMessageAllBots ==
    /\ ~panicked
    /\ UNCHANGED <<net, view>>
    /\ IF message # <<>> /\ channel # <<>> /\ available_bots(bots) # <<>>
       THEN LET avail == available_bots(bots) IN
            \E r \in LaunchAll(avail, [k \in 1..Len(avail) |-> message], FALSE) :
                /\ Launched(r)
                /\ panicked' = r.panicked
                /\ message' = IF r.panicked THEN message ELSE AfterSend(message)
       ELSE UNCHANGED <<bots, chat_history, sends, message, panicked>>
    /\ WithinBounds
    /\ UNCHANGED <<BOT_COUNTER, channel, messages, bot_message_input, sched, modes,
                   pending, probes>>

\* the errors send_message can report, as text
JoinError == <<"j", "o", "i", "n">>
IoError == <<"i", "o">>
SendErrors == {JoinError, IoError}

\* a failure written to the global log only
MessageSent_GlobalOnly(t, result) ==
    /\ ~panicked
    /\ UNCHANGED <<net, view>>
    /\ BagIn(t, sends)
    /\ t.delay = 0
    /\ sends' = sends (-) SetToBag({t})
    /\ IF result # None
       THEN chat_history' = Append(chat_history, ErrorEntry(result[1]))
       ELSE UNCHANGED chat_history
    /\ UNCHANGED <<registry, inputs, sched, modes, pending, probes, panicked>>
    /\ WithinBounds

\* a failed send launched again
MessageSent_Retries(t, result) ==
    /\ ~panicked
    /\ UNCHANGED <<net, view>>
    /\ BagIn(t, sends)
    /\ t.delay = 0
    /\ sends' = IF result # None THEN sends ELSE sends (-) SetToBag({t})
    /\ IF result # None
       THEN /\ chat_history' = Append(chat_history, ErrorEntry(result[1]))
            /\ bots' = IF InRange(bots, t.index)
                       THEN add_to_history(bots, t.index, ErrorEntry(result[1]))
                       ELSE bots
       ELSE UNCHANGED <<bots, chat_history>>
    /\ WithinBounds
    /\ UNCHANGED <<BOT_COUNTER, inputs, sched, modes, pending, probes, panicked>>

\* Message::MessageSent(index, result) for send task t, whose sleep is over:
\* result is None for Ok(()) and Some(error) for Err(error)
MessageSent(t, result) ==
    /\ ~panicked
    /\ UNCHANGED <<net, view>>
    /\ BagIn(t, sends)
    /\ t.delay = 0
    /\ sends' = sends (-) SetToBag({t})
    /\ IF result # None
       THEN /\ chat_history' = Append(chat_history, ErrorEntry(result[1]))
            /\ bots' = IF InRange(bots, t.index)
                       THEN add_to_history(bots, t.index, ErrorEntry(result[1]))
                       ELSE bots
       ELSE UNCHANGED <<bots, chat_history>>
    /\ WithinBounds
    /\ UNCHANGED <<BOT_COUNTER, inputs, sched, modes, pending, probes, panicked>>


\* ------------------------------------------------------------------- modes
\* Message::ToggleAllBotsMode(enabled)
\* the other mode left as it is
ToggleAllBotsMode_KeepsOther(enabled) ==
    /\ ~panicked
    /\ UNCHANGED <<net, view>>
    /\ all_bots_mode' = enabled
    /\ UNCHANGED <<registry, chat_history, inputs, sched, runtime, simultaneous_mode,
                   multiple_bots_mode, min_bot_delay, max_bot_delay, multiple_bots_count,
                   clear_after_send>>

ToggleAllBotsMode(enabled) ==
    /\ ~panicked
    /\ UNCHANGED <<net, view>>
    /\ all_bots_mode' = enabled
    /\ multiple_bots_mode' = IF enabled /\ multiple_bots_mode THEN FALSE ELSE multiple_bots_mode
    /\ UNCHANGED <<registry, chat_history, inputs, sched, runtime, simultaneous_mode,
                   min_bot_delay, max_bot_delay, multiple_bots_count, clear_after_send>>

\* Message::ToggleMultipleBotsMode(enabled)
ToggleMultipleBotsMode(enabled) ==
    /\ ~panicked
    /\ UNCHANGED <<net, view>>
    /\ multiple_bots_mode' = enabled
    /\ all_bots_mode' = IF enabled /\ all_bots_mode THEN FALSE ELSE all_bots_mode
    /\ UNCHANGED <<registry, chat_history, inputs, sched, runtime, simultaneous_mode,
                   min_bot_delay, max_bot_delay, multiple_bots_count, clear_after_send>>

\* Message::ToggleSimultaneousMode(enabled)
ToggleSimultaneousMode(enabled) ==
    /\ ~panicked
    /\ UNCHANGED <<net, view>>
    /\ simultaneous_mode' = enabled
    /\ UNCHANGED <<registry, chat_history, inputs, sched, runtime, all_bots_mode,
                   multiple_bots_mode, min_bot_delay, max_bot_delay, multiple_bots_count,
                   clear_after_send>>

\* Message::MinBotDelayUpdated(value)
MinBotDelayUpdated(value) ==
    /\ ~panicked
    /\ UNCHANGED <<net, view>>
    /\ min_bot_delay' = IF ParseU64(value) # None THEN ParseU64(value)[1] ELSE min_bot_delay
    /\ UNCHANGED <<registry, chat_history, inputs, sched, runtime, all_bots_mode,
                   multiple_bots_mode, simultaneous_mode, max_bot_delay, multiple_bots_count,
                   clear_after_send>>

\* Message::MaxBotDelayUpdated(value)
MaxBotDelayUpdated(value) ==
    /\ ~panicked
    /\ UNCHANGED <<net, view>>
    /\ max_bot_delay' = IF ParseU64(value) # None THEN ParseU64(value)[1] ELSE max_bot_delay
    /\ UNCHANGED <<registry, chat_history, inputs, sched, runtime, all_bots_mode,
                   multiple_bots_mode, simultaneous_mode, min_bot_delay, multiple_bots_count,
                   clear_after_send>>

\* Message::MultipleBotsCountUpdated(value)
\* the test `val > 0` left out
MultipleBotsCountUpdated_AcceptsZero(value) ==
    /\ ~panicked
    /\ UNCHANGED <<net, view>>
    /\ multiple_bots_count' =
           IF ParseU64(value) # None THEN ParseU64(value)[1] ELSE multiple_bots_count
    /\ UNCHANGED <<registry, chat_history, inputs, sched, runtime, all_bots_mode,
                   multiple_bots_mode, simultaneous_mode, min_bot_delay, max_bot_delay,
                   clear_after_send>>

MultipleBotsCountUpdated(value) ==
    /\ ~panicked
    /\ UNCHANGED <<net, view>>
    /\ multiple_bots_count' =
           IF ParseU64(value) # None /\ ParseU64(value)[1] > 0
           THEN ParseU64(value)[1] ELSE multiple_bots_count
    /\ UNCHANGED <<registry, chat_history, inputs, sched, runtime, all_bots_mode,
                   multiple_bots_mode, simultaneous_mode, min_bot_delay, max_bot_delay,
                   clear_after_send>>

\* Message::ToggleClearAfterSend(enabled)
ToggleClearAfterSend(enabled) ==
    /\ ~panicked
    /\ UNCHANGED <<net, view>>
    /\ clear_after_send' = enabled
    /\ UNCHANGED <<registry, chat_history, inputs, sched, runtime, all_bots_mode,
                   multiple_bots_mode, simultaneous_mode, min_bot_delay, max_bot_delay,
                   multiple_bots_count>>

\* ------------------------------------------------------------------ clears
\* Bot::clear_history through `self.bots.get_mut(index)`
clear_history_All(bs, index) ==
    [k \in 1..Len(bs) |-> [bs[k] EXCEPT !.chat_history = <<>>]]

clear_history(bs, index) ==
    IF InRange(bs, index) THEN [bs EXCEPT ![index + 1].chat_history = <<>>] ELSE bs

\* Message::ClearBotHistory(index)
ClearBotHistory(index) ==
    /\ ~panicked
    /\ UNCHANGED <<net, view>>
    /\ bots' = clear_history(bots, index)
    /\ UNCHANGED <<BOT_COUNTER, chat_history, inputs, sched, modes, runtime>>

\* Message::ClearGlobalHistory
ClearGlobalHistory ==
    /\ ~panicked
    /\ UNCHANGED <<net, view>>
    /\ chat_history' = <<>>
    /\ UNCHANGED <<registry, inputs, sched, modes, runtime>>

\* Message::ClearAllHistory
ClearAllHistory ==
    /\ ~panicked
    /\ UNCHANGED <<net, view>>
    /\ chat_history' = <<>>
    /\ bots' = [k \in 1..Len(bots) |-> [bots[k] EXCEPT !.chat_history = <<>>]]
    /\ UNCHANGED <<BOT_COUNTER, inputs, sched, modes, runtime>>

\* ------------------------------------------------------------------- clock
RECURSIVE Copies(_, _)
Copies(B, T) ==
    IF T = {} THEN 0
    ELSE LET t == CHOOSE x \in T : TRUE IN CopiesIn(t, B) + Copies(B, T \ {t})

\* the sleeping sends after one second, f[t] the remaining sleep of task t
Slept(B, f) ==
    LET S == BagToSet(B)
        img(t) == [t EXCEPT !.delay = f[t]]
    IN  [u \in {img(t) : t \in S} |-> Copies(B, {t \in S : img(t) = u})]

\* One second passes (Instant::now() moves on, async sleeps run down).
Advance ==
    /\ ~panicked
    /\ UNCHANGED <<net, view>>
    /\ next_message_time' \in
           IF next_message_time = None THEN {None}
           ELSE {Some(r) : r \in Elapse(next_message_time[1])}
    /\ last_message_time' \in
           IF last_message_time = None THEN {None}
           ELSE {Some(r) : r \in Elapse(last_message_time[1])}
    /\ \E f \in [BagToSet(sends) -> 0..Far] :
           /\ \A t \in BagToSet(sends) : f[t] \in Elapse(t.delay)
           /\ sends' = Slept(sends, f)
    /\ UNCHANGED <<registry, chat_history, inputs, modes, pending, probes, panicked,
                   random_messages_enabled, min_interval, max_interval, expiry_fires>>

\* ------------------------------------------------------------ detail view
\* Message::ToggleBotChatView(index)
ToggleBotChatView(index) ==
    /\ ~panicked
    /\ viewing_bot_chat' = Some(index)
    /\ bot_message_input' = <<>>
    /\ UNCHANGED <<registry, chat_history, message, channel, messages, sched, modes,
                   runtime, net>>

\* Message::CloseBotChatView
CloseBotChatView ==
    /\ ~panicked
    /\ viewing_bot_chat' = None
    /\ bot_message_input' = <<>>
    /\ UNCHANGED <<registry, chat_history, message, channel, messages, sched, modes,
                   runtime, net>>

\* str::trim_start_matches("<die> "): the prefix is removed as often as it stands
RECURSIVE TrimDice(_)
TrimDice(s) ==
    IF Len(s) >= 2 /\ s[1] = Dice /\ s[2] = " " THEN TrimDice(SubSeq(s, 3, Len(s))) ELSE s

\* App::extract_bot_name_from_message: the text between the first "[" and the
\* first "]", without the die prefix, trimmed; the slice panics when the
\* first "]" stands before the first "["
extract_bot_name_from_message(msg) ==
    LET start == Find(msg, "[")
        end   == Find(msg, "]")
    IN  IF start = 0 \/ end = 0 THEN [panic |-> FALSE, name |-> None]
        ELSE IF end < start THEN [panic |-> TRUE, name |-> None]
        ELSE [panic |-> FALSE,
              name |-> Some(Trim(TrimDice(SubSeq(msg, start + 1, end - 1))))]

\* the last bot of that name instead of the first
position_Last(bs, bot_name) ==
    IF \E k \in 1..Len(bs) : bs[k].name = bot_name
    THEN Some((CHOOSE k \in 1..Len(bs) :
                  /\ bs[k].name = bot_name
                  /\ \A j \in (k + 1)..Len(bs) : bs[j].name # bot_name) - 1)
    ELSE None

\* self.bots.iter().position(|b| b.name == bot_name): Option<usize>
position(bs, bot_name) ==
    IF \E k \in 1..Len(bs) : bs[k].name = bot_name
    THEN Some((CHOOSE k \in 1..Len(bs) :
                  /\ bs[k].name = bot_name
                  /\ \A j \in 1..(k - 1) : bs[j].name # bot_name) - 1)
    ELSE None

\* Message::MessageClicked(message_index)
MessageClicked(message_index) ==
    /\ ~panicked
    /\ LET found == IF InRange(chat_history, message_index)
                    THEN extract_bot_name_from_message(Get(chat_history, message_index))
                    ELSE [panic |-> FALSE, name |-> None]
           bot_index == IF found.name = None THEN None ELSE position(bots, found.name[1])
       IN  /\ panicked' = found.panic
           /\ IF bot_index # None
              THEN /\ viewing_bot_chat' = bot_index
                   /\ bot_message_input' = <<>>
              ELSE UNCHANGED <<viewing_bot_chat, bot_message_input>>
    /\ UNCHANGED <<registry, chat_history, message, channel, messages, sched, modes,
                   pending, sends, probes, net>>

\* App::view: with a bot's detail view open, view_bot_chat takes
\* `&self.bots[bot_index]`, which panics for an index outside the registry
Render ==
    /\ ~panicked
    /\ panicked' = (viewing_bot_chat # None /\ ~InRange(bots, viewing_bot_chat[1]))
    /\ UNCHANGED <<registry, chat_history, inputs, sched, modes, pending, sends, probes,
                   net, view>>

\* ------------------------------------------------------------ IRC sessions
\* Lines on the wire are sequences of words: the words the code looks for
\* ("PING", "366", "End of /NAMES list", the welcome and login-failure
\* indicators) are single elements, every other element is one character.
\* `contains`, `starts_with` and `replace` work on these elements.
Contains(line, word) == \E i \in 1..Len(line) : line[i] = word
StartsWith(line, word) == Len(line) > 0 /\ line[1] = word

\* line.replace("PING", "PONG"): every occurrence
ReplacePing(line) == [i \in 1..Len(line) |-> IF line[i] = "PING" THEN "PONG" ELSE line[i]]

\* format!("PASS oauth:{}\n", oauth), format!("NICK {}\n", nickname),
\* format!("JOIN #{}\r\n", channel), format!("PRIVMSG #{} :{}\r\n", channel, message)
PassLine(oauth) == <<"PASS", " ", "oauth:">> \o oauth \o <<"\n">>
NickLine(nickname) == <<"NICK", " ">> \o nickname \o <<"\n">>
JoinLine(chan) == <<"JOIN", " ", "#">> \o chan \o <<"\r", "\n">>
PrivmsgLine(chan, msg) == <<"PRIVMSG", " ", "#">> \o chan \o <<" ", ":">> \o msg \o <<"\r", "\n">>

\* `line.contains("366") || line.contains("End of /NAMES list")`
JoinConfirmed(line) == Contains(line, "366") \/ Contains(line, "End of /NAMES list")

\* the session returns `result` (None for Ok(()), Some(error) for Err)
Returned(sess, result) == [sess EXCEPT !.pc = "done", !.result = result]

\* TcpStream::connect(SERVER).await? for a call with the given arguments
SendConnect(nickname, oauth, chan, msg, ok) ==
    /\ send_session.pc = "idle"
    /\ send_session' =
          LET started == [pc |-> "pass", nickname |-> nickname, oauth |-> oauth,
                          channel |-> chan, message |-> msg, written |-> <<>>,
                          joined |-> FALSE, expired |-> FALSE, reads |-> 0,
                          line |-> <<>>, result |-> None]
          IN  IF ok THEN started ELSE Returned(started, Some(IoError))
    /\ UNCHANGED <<registry, chat_history, inputs, sched, modes, runtime, view, probe_session>>

\* writer.write_all(..).await? of the line the session is at
SendWrite(ok) ==
    /\ send_session.pc \in {"pass", "nick", "join", "pong", "privmsg"}
    /\ LET sess == send_session
           out == CASE sess.pc = "pass" -> PassLine(sess.oauth)
                    [] sess.pc = "nick" -> NickLine(sess.nickname)
                    [] sess.pc = "join" -> JoinLine(sess.channel)
                    [] sess.pc = "pong" -> ReplacePing(sess.line)
                    [] sess.pc = "privmsg" -> PrivmsgLine(sess.channel, sess.message)
           next == CASE sess.pc = "pass" -> "nick"
                     [] sess.pc = "nick" -> "join"
                     [] sess.pc = "join" -> "wait"
                     [] sess.pc = "pong" -> "wait"
                     [] sess.pc = "privmsg" -> "sleep2"
       IN  send_session' =
              IF ok THEN [sess EXCEPT !.pc = next, !.written = Append(@, out)]
              ELSE Returned(sess, Some(IoError))
    /\ UNCHANGED <<registry, chat_history, inputs, sched, modes, runtime, view, probe_session>>

\* the five seconds since `let timeout = Instant::now()` run out
SendExpire ==
    /\ send_session.pc \in {"wait", "read", "pong"}
    /\ ~send_session.expired
    /\ send_session' = [send_session EXCEPT !.expired = TRUE]
    /\ UNCHANGED <<registry, chat_history, inputs, sched, modes, runtime, view, probe_session>>

\* the test of `joined` left out
AfterWait_Unchecked(sess) == [sess EXCEPT !.pc = "sleep1"]

\* after the loop: `if !joined { return Err(..) }`
AfterWait(sess) ==
    IF sess.joined THEN [sess EXCEPT !.pc = "sleep1"] ELSE Returned(sess, Some(JoinError))

\* `while timeout.elapsed() < Duration::from_secs(5)`, then line.clear() and
\* the call of read_line
SendLoop ==
    /\ send_session.pc = "wait"
    /\ send_session' =
          IF send_session.expired THEN AfterWait(send_session)
          ELSE [send_session EXCEPT !.pc = "read", !.line = <<>>]
    /\ UNCHANGED <<registry, chat_history, inputs, sched, modes, runtime, view, probe_session>>

\* read_line returns Ok(n) with n > 0: the server has sent `line`
SendReadLine(line) ==
    /\ send_session.pc = "read"
    /\ send_session.reads < MaxReads
    /\ LET sess == [send_session EXCEPT !.line = line, !.reads = @ + 1]
       IN  send_session' =
              IF JoinConfirmed(line) THEN AfterWait([sess EXCEPT !.joined = TRUE])
              ELSE IF StartsWith(line, "PING") THEN [sess EXCEPT !.pc = "pong"]
              ELSE [sess EXCEPT !.pc = "wait"]
    /\ UNCHANGED <<registry, chat_history, inputs, sched, modes, runtime, view, probe_session>>

\* read_line returns Ok(0): the server has closed the stream
SendReadEof ==
    /\ send_session.pc = "read"
    /\ send_session' = AfterWait(send_session)
    /\ UNCHANGED <<registry, chat_history, inputs, sched, modes, runtime, view, probe_session>>

\* read_line returns Err: `if let Ok(n)` does not match, the loop goes on
SendReadError ==
    /\ send_session.pc = "read"
    /\ send_session.reads < MaxReads
    /\ send_session' = [send_session EXCEPT !.pc = "wait", !.reads = @ + 1]
    /\ UNCHANGED <<registry, chat_history, inputs, sched, modes, runtime, view, probe_session>>

\* the message written once more after the second sleep
SendSleep_Resends ==
    /\ send_session.pc \in {"sleep1", "sleep2"}
    /\ send_session' = [send_session EXCEPT !.pc = "privmsg"]
    /\ UNCHANGED <<registry, chat_history, inputs, sched, modes, runtime, view, probe_session>>

\* async_std::task::sleep(..) of one second before and two seconds after PRIVMSG
SendSleep ==
    /\ send_session.pc \in {"sleep1", "sleep2"}
    /\ send_session' =
          IF send_session.pc = "sleep1" THEN [send_session EXCEPT !.pc = "privmsg"]
          ELSE Returned(send_session, None)
    /\ UNCHANGED <<registry, chat_history, inputs, sched, modes, runtime, view, probe_session>>

\* the call is over and its connection dropped; the next call starts afresh
SendClose ==
    /\ send_session.pc = "done"
    /\ send_session' = IdleSend
    /\ UNCHANGED <<registry, chat_history, inputs, sched, modes, runtime, view, probe_session>>

\* `response.contains(":tmi.twitch.tv 001") || response.contains("Welcome")`
WelcomeSeen(response) ==
    Contains(response, ":tmi.twitch.tv 001") \/ Contains(response, "Welcome")

\* the value of the async block for a response that was read
ProbeVerdict(response) ==
    IF WelcomeSeen(response) THEN TRUE
    ELSE IF Contains(response, "Login authentication failed")
            \/ Contains(response, "Login unsuccessful") THEN FALSE
    ELSE FALSE

\* a timeout or an I/O error reported as a valid login
ProbeReturn_Optimistic(sess, inner) ==
    [sess EXCEPT !.pc = "done",
                 !.result = Some(IF inner # None THEN inner[1] ELSE TRUE)]

\* `match result { Ok(Ok(valid)) => Ok(valid), _ => Ok(false) }`: inner is
\* Some(valid) for Ok(Ok(valid)) and None for a timeout or an I/O error
ProbeReturn(sess, inner) ==
    [sess EXCEPT !.pc = "done",
                 !.result = Some(IF inner # None THEN inner[1] ELSE FALSE)]

\* test_irc_connection(username, oauth_token) is called: the timeout starts
ProbeStart(username, oauth_token) ==
    /\ probe_session.pc = "idle"
    /\ probe_session' = [pc |-> "connect", username |-> username,
                         oauth_token |-> oauth_token, written |-> <<>>,
                         response |-> None, result |-> None]
    /\ UNCHANGED <<registry, chat_history, inputs, sched, modes, runtime, view, send_session>>

\* TcpStream::connect(SERVER).await?
ProbeConnect(ok) ==
    /\ probe_session.pc = "connect"
    /\ probe_session' = IF ok THEN [probe_session EXCEPT !.pc = "pass"]
                        ELSE ProbeReturn(probe_session, None)
    /\ UNCHANGED <<registry, chat_history, inputs, sched, modes, runtime, view, send_session>>

\* stream.write_all(..).await? of "PASS oauth:{}\r\n", then of "NICK {}\r\n"
ProbeWrite(ok) ==
    /\ probe_session.pc \in {"pass", "nick"}
    /\ LET sess == probe_session
           out == IF sess.pc = "pass"
                  THEN <<"PASS", " ", "oauth:">> \o sess.oauth_token \o <<"\r", "\n">>
                  ELSE <<"NICK", " ">> \o sess.username \o <<"\r", "\n">>
       IN  probe_session' =
              IF ok THEN [sess EXCEPT !.pc = IF sess.pc = "pass" THEN "nick" ELSE "read",
                                      !.written = Append(@, out)]
              ELSE ProbeReturn(sess, None)
    /\ UNCHANGED <<registry, chat_history, inputs, sched, modes, runtime, view, send_session>>

\* stream.read(&mut buffer).await? and the tests of the response; `read` is
\* Some(response) (empty when the stream is closed) or None for a read error
ProbeRead(read) ==
    /\ probe_session.pc = "read"
    /\ probe_session' =
          IF read = None THEN ProbeReturn(probe_session, None)
          ELSE ProbeReturn([probe_session EXCEPT !.response = read],
                           Some(ProbeVerdict(read[1])))
    /\ UNCHANGED <<registry, chat_history, inputs, sched, modes, runtime, view, send_session>>

\* the ten seconds of async_std::future::timeout run out at an await point
ProbeTimeout ==
    /\ probe_session.pc \in {"connect", "pass", "nick", "read"}
    /\ probe_session' = ProbeReturn(probe_session, None)
    /\ UNCHANGED <<registry, chat_history, inputs, sched, modes, runtime, view, send_session>>

\* the call is over
ProbeClose ==
    /\ probe_session.pc = "done"
    /\ probe_session' = IdleProbe
    /\ UNCHANGED <<registry, chat_history, inputs, sched, modes, runtime, view, send_session>>

\* ------------------------------------------------------------------ inputs
Texts == {<<>>, <<"h">>}
Channels == {<<>>, <<"c">>}
PoolTexts == {<<>>, <<"h">>, <<"h", "\n", " ", "\n", "y">>}
ConfigTexts == {<<"t", "|", "A">>, <<"t", "|", "A", "\n", "\n", " ", "u">>}
NumberTexts == {<<"0">>, <<"1">>, <<"2">>, <<"x">>, <<>>}
Indices == 0..Len(bots)

\* ----------------------------------------------------------- specifications
\* The scheduler with one registry of one bot in single-bot mode; the server
\* accepts every send.
SchedNumberTexts == {<<"0">>, <<"x">>}
SchedPoolTexts == {<<>>, <<"h">>}

SchedNext ==
    \/ \E e \in BOOLEAN : ToggleRandomMessages(e)
    \/ \E v \in SchedNumberTexts : MinIntervalUpdated(v)
    \/ \E v \in SchedNumberTexts : MaxIntervalUpdated(v)
    \/ Tick(0)
    \/ SendRandomMessageNow
    \/ \E o \in Origins : SendRandomMessage(o)
    \/ Advance
    \/ \E c \in Channels : ChannelNameUpdated(c)
    \/ \E t \in SchedPoolTexts : LoadedMessages(t)
    \/ LoadedConfig(<<"t", "|", "A">>)
    \/ CheckBotsPress
    \/ \E p \in BagToSet(probes), flag \in BOOLEAN : BotChecked(p, flag)
    \/ \E t \in BagToSet(sends) : MessageSent(t, None)
    \/ ClearAllHistory

SchedSpec == Init /\ [][SchedNext]_vars


\* The scheduler while no bot is reachable: every probe fails, so no dispatch
\* passes the eligibility filter and the logs stay empty.  Ticks arrive while
\* the subscription is on (one a second, so a next_message_time that is due
\* again and again is met by some tick), time passes, and every Task::done
\* message and every probe result is delivered.
LiveNext ==
    \/ \E e \in BOOLEAN : ToggleRandomMessages(e)
    \/ \E v \in SchedNumberTexts : MinIntervalUpdated(v)
    \/ \E v \in SchedNumberTexts : MaxIntervalUpdated(v)
    \/ Tick(0)
    \/ SendRandomMessageNow
    \/ \E o \in Origins : SendRandomMessage(o)
    \/ Advance
    \/ \E c \in Channels : ChannelNameUpdated(c)
    \/ \E t \in SchedPoolTexts : LoadedMessages(t)
    \/ LoadedConfig(<<"t", "|", "A">>)
    \/ CheckBotsPress
    \/ \E p \in BagToSet(probes) : BotChecked(p, FALSE)
    \/ \E i \in Indices, e \in BOOLEAN : ToggleBotEnabled(i, e)

LiveSpec ==
    /\ Init
    /\ [][LiveNext]_vars
    /\ SF_vars(Tick(0))
    /\ WF_vars(Advance)
    /\ WF_vars(\E o \in Origins : SendRandomMessage(o))
    /\ WF_vars(\E p \in BagToSet(probes) : BotChecked(p, FALSE))

\* The dispatch engine over a registry of two bots.  The initial states are
\* the configurations the application is in after LoadedConfig(DispatchConfig),
\* one probe round (CheckBotsPress and a BotChecked per bot with either
\* result), and the user's input of channel, message, pool and mode settings.
DispatchConfig == <<"t", "|", "A", "\n", "\n", " ", "u">>

DispatchInit ==
    LET loaded == create_bots(DispatchConfig, BotCounterStart) IN
    /\ bots \in {[k \in 1..Len(loaded.bots) |->
                    [loaded.bots[k] EXCEPT !.available = avail[k]]] :
                 avail \in [1..Len(loaded.bots) -> BOOLEAN]}
    /\ BOT_COUNTER = loaded.counter
    /\ chat_history = <<>>
    /\ message \in Texts
    /\ channel \in Channels
    /\ messages \in {NonBlankLines(t) : t \in SchedPoolTexts}
    /\ bot_message_input \in Texts
    /\ random_messages_enabled = FALSE
    /\ min_interval = DefaultMinInterval
    /\ max_interval = DefaultMaxInterval
    /\ next_message_time = None
    /\ last_message_time = None
    /\ all_bots_mode \in BOOLEAN
    /\ multiple_bots_mode \in BOOLEAN
    /\ ~(all_bots_mode /\ multiple_bots_mode)
    /\ simultaneous_mode \in BOOLEAN
    /\ min_bot_delay = DefaultMinBotDelay
    /\ max_bot_delay = DefaultMaxBotDelay
    /\ multiple_bots_count \in {DefaultMultipleBotsCount, 1}
    /\ clear_after_send = FALSE
    /\ pending = [o \in Origins |-> 0]
    /\ sends = EmptyBag
    /\ probes = EmptyBag
    /\ panicked = FALSE
    /\ expiry_fires = 0
    /\ viewing_bot_chat = None
    /\ send_session = IdleSend
    /\ probe_session = IdleProbe

SendResults == {None, Some(JoinError)}

DispatchNext ==
    \/ \E i \in Indices : SendMessage(i)
    \/ \E i \in Indices : SendBotMessage(i)
    \/ SendMessageRandomBot
    \/ SendMessageAllBots
    \/ SendRandomMessageNow
    \/ SendRandomMessage("now")
    \/ \E i \in Indices, e \in BOOLEAN : ToggleBotEnabled(i, e)
    \/ \E t \in BagToSet(sends), r \in SendResults : MessageSent(t, r)
    \/ Advance

DispatchSpec == DispatchInit /\ [][DispatchNext]_vars

\* ---------------------------------------------------------- dispatch claims
\* the sends a step has launched, and the entries it has appended to the log
NewSends == sends' (-) sends
NewEntryIndices == (Len(chat_history) + 1)..Len(chat_history')
NewHistory(k) ==
    {bots'[k].chat_history[q] :
        q \in (Len(bots[k].chat_history) + 1)..Len(bots'[k].chat_history)}

\* a step of one of the dispatch handlers
DispatchStep ==
    \/ \E i \in Indices : SendMessage(i)
    \/ \E i \in Indices : SendBotMessage(i)
    \/ SendMessageRandomBot
    \/ SendMessageAllBots
    \/ \E o \in Origins : SendRandomMessage(o)

FailsPredicate(k) == ~bots[k].available \/ ~bots[k].enable

\* C1: a dispatch launches sends only for bots that were available and
\* enabled when the handler ran; a bot that was not gets no send and no entry
\* in its history, and every entry the dispatch adds to the global log is the
\* entry it added to the history of an available, enabled bot.
C1_OnlyEligibleTargets ==
    [][ DispatchStep =>
          /\ \A t \in BagToSet(sends') :
                CopiesIn(t, sends') > CopiesIn(t, sends)
                    => /\ InRange(bots, t.index)
                       /\ ~FailsPredicate(t.index + 1)
                       /\ t.name = bots[t.index + 1].name
          /\ \A k \in 1..Len(bots) :
                FailsPredicate(k) => bots'[k].chat_history = bots[k].chat_history
          /\ \A j \in (Len(chat_history) + 1)..Len(chat_history') :
                \E k \in 1..Len(bots) :
                    /\ ~FailsPredicate(k)
                    /\ Len(bots'[k].chat_history) > Len(bots[k].chat_history)
                    /\ chat_history'[j] \in
                          {bots'[k].chat_history[q] :
                              q \in (Len(bots[k].chat_history) + 1)..Len(bots'[k].chat_history)}
      ]_vars

\* a SendRandomMessage in all-bots mode (the entry carries the die, and with
\* an empty `message` SendMessageRandomBot cannot have written it) has launched
\* one send and logged one entry, while the other bot, which fails the
\* predicate, has an empty history
C1_Witness ==
    /\ Len(bots) = 2
    /\ all_bots_mode
    /\ message = <<>>
    /\ Len(chat_history) = 1
    /\ chat_history[1][2] = Dice
    /\ BagCardinality(sends) = 1
    /\ \E k \in 1..2 : FailsPredicate(k) /\ bots[k].chat_history = <<>>
    /\ \E k \in 1..2 : bots[k].chat_history = chat_history

\* ------------------------------------------------------- scheduler claims
Armed == random_messages_enabled
Due == Armed /\ next_message_time # None /\ next_message_time[1] <= 0
InFuture(t) == t # None /\ t[1] > 0

\* C2: in every reachable state next_message_time is set if and only if
\* random_messages_enabled is true.
C2_NextSetIffEnabled == (next_message_time # None) <=> random_messages_enabled

\* C3: a Tick handled while the scheduler is disabled, or while it is armed
\* with next_message_time still in the future, emits no SendRandomMessage;
\* and a Tick never changes next_message_time, the logs or the sends.
C3_EarlyTickSilent ==
    [][ /\ ~Due => pending'["tick"] <= pending["tick"]
        /\ Tick(0) => /\ next_message_time' = next_message_time
                      /\ UNCHANGED <<bots, chat_history, sends>> ]_vars

C3_Witness ==
    /\ Armed
    /\ InFuture(next_message_time)
    /\ last_message_time # None
    /\ pending["tick"] = 0
    /\ ~panicked

\* C4: one expiry of next_message_time yields exactly one SendRandomMessage:
\* Tick never emits a second one for the same next_message_time.
C4_OneFirePerExpiry == expiry_fires <= 1

\* C5: a scheduled fire that dispatches while the scheduler is armed leaves
\* next_message_time set, strictly later than the time of the fire.
C5_RescheduledStrictlyLater ==
    [][ (SendRandomMessage("tick") /\ sends' # sends /\ Armed)
            => InFuture(next_message_time') ]_vars

\* C6: a scheduled fire handled while armed with an empty pool or an empty
\* channel launches nothing, logs nothing and still moves next_message_time
\* to a new future time.
C6_EmptyFireReschedules ==
    [][ (SendRandomMessage("tick") /\ Armed /\ (messages = <<>> \/ channel = <<>>))
            => /\ UNCHANGED <<bots, chat_history, sends>>
               /\ InFuture(next_message_time') ]_vars

\* C7: disabling clears next_message_time, and while the scheduler is
\* disabled no scheduled fire dispatches, also not one that a Tick had
\* emitted before the disable.
C7_NoDispatchAfterDisable ==
    [][ /\ ToggleRandomMessages(FALSE) => next_message_time' = None
        /\ (SendRandomMessage("tick") /\ ~Armed)
               => UNCHANGED <<bots, chat_history, sends>> ]_vars

\* C8: SendRandomMessageNow clears next_message_time, emits exactly one
\* SendRandomMessage and keeps the enabled flag; handling that message keeps
\* the flag and, when armed, ends with next_message_time in the future.
C8_FireNowReschedules ==
    [][ /\ SendRandomMessageNow
            => /\ next_message_time' = None
               /\ pending'["now"] = pending["now"] + 1
               /\ UNCHANGED random_messages_enabled
        /\ SendRandomMessage("now")
            => /\ UNCHANGED random_messages_enabled
               /\ Armed => InFuture(next_message_time') ]_vars

\* C9: the scheduler starts disabled with next_message_time unset (a disabled
\* scheduler has no next_message_time), and every enable arms it and sets
\* next_message_time to now + d for a d within [min_interval, max_interval]
\* as they are at that moment.
C9_EnableArms ==
    [][ /\ (~Armed /\ ToggleRandomMessages(FALSE)) => next_message_time = None
        /\ ToggleRandomMessages(TRUE)
              => /\ random_messages_enabled'
                 /\ ~panicked'
                 /\ \E d \in min_interval..max_interval :
                        next_message_time' = Some(After(d)) ]_vars

\* C10: while the scheduler stays armed, scheduled fires keep coming: from
\* every armed state of the running application with no scheduled fire in
\* flight, a Tick eventually emits one, unless the scheduler is disabled
\* first (or the application has gone down in a panic).
C10_FiresRecur ==
    []((Armed /\ pending["tick"] = 0 /\ ~panicked)
          => <>(pending["tick"] > 0 \/ ~Armed \/ panicked))

\* C11: with min_interval > max_interval, enabling the scheduler and
\* rescheduling after a fire do not panic and leave next_message_time set.
C11_InvertedBoundsTolerated ==
    [][ (/\ min_interval > max_interval
         /\ \/ ToggleRandomMessages(TRUE)
            \/ \E o \in Origins :
                  SendRandomMessage(o) /\ Armed /\ chat_history' # chat_history)
            => ~panicked' /\ next_message_time' # None ]_vars


\* C14: a launched send delivers its result once: handling the result takes
\* the send out of flight and launches nothing; a success changes nothing
\* else, and a failure appends exactly one entry, the error entry, to the
\* global log.
C14_OneResultNoRetry ==
    [][ \A t \in BagToSet(sends), r \in SendResults :
          MessageSent(t, r) =>
            /\ sends' = sends (-) SetToBag({t})
            /\ BagCardinality(sends') = BagCardinality(sends) - 1
            /\ UNCHANGED <<BOT_COUNTER, inputs, sched, modes, pending, probes, panicked>>
            /\ r = None => UNCHANGED <<bots, chat_history>>
            /\ r # None =>
                 /\ Len(chat_history') = Len(chat_history) + 1
                 /\ SubSeq(chat_history', 1, Len(chat_history)) = chat_history
                 /\ chat_history'[Len(chat_history')][1] = Cross
                 /\ chat_history'[Len(chat_history')] = ErrorEntry(r[1])
      ]_vars

\* a send was launched by SendMessage, failed, and its result was handled:
\* the log holds the attempt entry and one error entry, nothing is in flight
C14_Witness ==
    /\ Len(chat_history) = 2
    /\ chat_history[1][1] = "["
    /\ chat_history[1][2] # Dice
    /\ chat_history[2] = ErrorEntry(JoinError)
    /\ sends = EmptyBag
    /\ \E k \in 1..Len(bots) : bots[k].chat_history = chat_history

\* the step launches exactly one send, for bots[i + 1], with one attempt entry
OneSendFor(i) ==
    /\ sends \sqsubseteq sends'
    /\ BagCardinality(NewSends) = 1
    /\ \A t \in BagToSet(NewSends) : t.index = i /\ t.name = Get(bots, i).name
    /\ Len(chat_history') = Len(chat_history) + 1
    /\ Len(Get(bots', i).chat_history) = Len(Get(bots, i).chat_history) + 1
    /\ \A k \in 1..Len(bots) : k # i + 1 => bots'[k] = bots[k]

\* C19: SendMessage(i) launches exactly one send, for bot i, when bot i is
\* available and enabled, and so does SendBotMessage(i) when its text and the
\* channel are not empty; with bot i not eligible or i out of range both
\* launch nothing and leave the global log and every bot history unchanged.
C19_SingleBot ==
    [][ \A i \in Indices :
          /\ SendMessage(i) =>
                IF InRange(bots, i) /\ Eligible(Get(bots, i))
                THEN OneSendFor(i)
                ELSE UNCHANGED <<bots, chat_history, sends>>
          /\ SendBotMessage(i) =>
                IF /\ InRange(bots, i) /\ Eligible(Get(bots, i))
                   /\ bot_message_input # <<>> /\ channel # <<>>
                THEN OneSendFor(i)
                ELSE UNCHANGED <<bots, chat_history, sends>>
      ]_vars

\* SendBotMessage has sent the text "h" for one bot (the main message is
\* empty, so no other handler wrote this entry) while the other bot, not
\* eligible, has an empty history
C19_Witness ==
    /\ message = <<>>
    /\ bot_message_input = <<>>
    /\ Len(bots) = 2
    /\ Len(chat_history) = 1
    /\ BagCardinality(sends) = 1
    /\ \E k \in 1..2 :
          /\ chat_history[1] = DirectEntry(bots[k].name, <<"h">>)
          /\ bots[k].chat_history = chat_history
          /\ \A t \in BagToSet(sends) : t.index = k - 1 /\ t.message = <<"h">>
          /\ FailsPredicate(3 - k)
          /\ bots[3 - k].chat_history = <<>>

\* C20: with no bot both available and enabled, SendMessageRandomBot,
\* SendMessageAllBots and SendRandomMessage launch no send, append nothing to
\* any history or to the global log, and raise nothing.
C20_EmptyEligibleNoOp ==
    [][ (/\ \A k \in 1..Len(bots) : FailsPredicate(k)
         /\ \/ SendMessageRandomBot
            \/ SendMessageAllBots
            \/ \E o \in Origins : SendRandomMessage(o))
            => UNCHANGED <<bots, chat_history, sends, panicked>> ]_vars

\* a fire-now is waiting to be handled with a pool, a channel and a message
\* at hand while neither of the two bots is eligible, and nothing has been
\* logged or launched
C20_Witness ==
    /\ Len(bots) = 2
    /\ \A k \in 1..2 : FailsPredicate(k)
    /\ \E k \in 1..2 : bots[k].available
    /\ pending["now"] = 1
    /\ messages # <<>>
    /\ channel # <<>>
    /\ message # <<>>
    /\ chat_history = <<>>
    /\ \A k \in 1..2 : bots[k].chat_history = <<>>
    /\ sends = EmptyBag
    /\ ~panicked

\* C21: a dispatch handler run with an empty text (the message, the bot
\* message input, or for SendRandomMessage the pool) or with an empty channel
\* launches no send and appends nothing to the global log or to a history.
C21_EmptyInputNoOp ==
    [][ (\/ /\ message = <<>> \/ channel = <<>>
            /\ \/ \E i \in Indices : SendMessage(i)
               \/ SendMessageRandomBot
               \/ SendMessageAllBots
         \/ /\ bot_message_input = <<>> \/ channel = <<>>
            /\ \E i \in Indices : SendBotMessage(i)
         \/ /\ messages = <<>> \/ channel = <<>>
            /\ \E o \in Origins : SendRandomMessage(o))
            => UNCHANGED <<bots, chat_history, sends>> ]_vars

\* ------------------------------------------------------------ batch spec
\* Multi-target dispatches with the delay policy and the subset size under
\* the user's control.  The initial states are those after
\* LoadedConfig(DispatchConfig), a probe round in which both bots answered,
\* and the user's input of message, channel, pool and mode.
BatchPoolTexts == {<<"h">>, <<"h", "\n", "y">>}
BatchNumberTexts == {<<"0">>, <<"1">>}

BatchInit ==
    LET loaded == create_bots(DispatchConfig, BotCounterStart) IN
    /\ bots = [k \in 1..Len(loaded.bots) |-> [loaded.bots[k] EXCEPT !.available = TRUE]]
    /\ BOT_COUNTER = loaded.counter
    /\ chat_history = <<>>
    /\ message = <<"h">>
    /\ channel = <<"c">>
    /\ messages \in {NonBlankLines(t) : t \in BatchPoolTexts}
    /\ bot_message_input = <<>>
    /\ random_messages_enabled = FALSE
    /\ min_interval = DefaultMinInterval
    /\ max_interval = DefaultMaxInterval
    /\ next_message_time = None
    /\ last_message_time = None
    /\ all_bots_mode \in BOOLEAN
    /\ multiple_bots_mode \in BOOLEAN
    /\ ~(all_bots_mode /\ multiple_bots_mode)
    /\ simultaneous_mode \in BOOLEAN
    /\ min_bot_delay = DefaultMinBotDelay
    /\ max_bot_delay = DefaultMaxBotDelay
    /\ multiple_bots_count \in {DefaultMultipleBotsCount, 1}
    /\ clear_after_send = FALSE
    /\ pending = [o \in Origins |-> 0]
    /\ sends = EmptyBag
    /\ probes = EmptyBag
    /\ panicked = FALSE
    /\ expiry_fires = 0
    /\ viewing_bot_chat = None
    /\ send_session = IdleSend
    /\ probe_session = IdleProbe

BatchNext ==
    \/ SendMessageAllBots
    \/ SendRandomMessageNow
    \/ SendRandomMessage("now")
    \/ \E v \in BatchNumberTexts : MaxBotDelayUpdated(v)
    \/ \E i \in Indices, e \in BOOLEAN : ToggleBotEnabled(i, e)
    \/ \E t \in BagToSet(sends) : MessageSent(t, None)
    \/ Advance

BatchSpec == BatchInit /\ [][BatchNext]_vars

\* ------------------------------------------------------------ batch claims
\* C12: when a dispatch handler has run, every send it launched has its
\* attempt entry in the global log and in the history of its bot, none of the
\* launched sends has delivered a result yet, and a handler that returns has
\* appended exactly as many entries to the global log as it has targets.
C12_EntriesBeforeSends ==
    [][ DispatchStep =>
          /\ sends \sqsubseteq sends'
          /\ \A t \in BagToSet(NewSends) :
                \E j \in NewEntryIndices :
                    /\ chat_history'[j] \in
                           {AttemptEntry(dice, t.name, t.message) : dice \in BOOLEAN}
                    /\ chat_history'[j] \in NewHistory(t.index + 1)
          /\ ~panicked' => Len(chat_history') - Len(chat_history) = BagCardinality(NewSends)
      ]_vars

\* SendMessageAllBots in simultaneous mode has appended two entries, one per
\* bot, while both sends are still in flight
C12_Witness ==
    /\ simultaneous_mode
    /\ Len(chat_history) = 2
    /\ chat_history[1] = DirectEntry(bots[1].name, <<"h">>)
    /\ chat_history[2] = DirectEntry(bots[2].name, <<"h">>)
    /\ \A k \in 1..2 : bots[k].chat_history = <<chat_history[k]>>
    /\ BagCardinality(sends) = 2
    /\ \A t \in BagToSet(sends) : t.delay = 0

\* a SendRandomMessage that gets past its early returns in multiple-bots mode
SubsetDispatch ==
    /\ \E o \in Origins : SendRandomMessage(o)
    /\ multiple_bots_mode
    /\ messages # <<>>
    /\ channel # <<>>
    /\ available_bots(bots) # <<>>

SubsetSize == Min2(multiple_bots_count, Len(available_bots(bots)))

PairwiseDifferent(s) == \A a, b \in 1..Len(s) : s[a] = s[b] => a = b

\* C15: a multiple-bots dispatch launches sends for exactly
\* min(multiple_bots_count, |eligible|) bots, pairwise distinct and all
\* eligible, and does not panic, also when the count exceeds the eligible set.
C15_SubsetSelection ==
    [][ SubsetDispatch =>
          LET targets == {t.index : t \in BagToSet(NewSends)} IN
          /\ ~panicked'
          /\ BagCardinality(NewSends) = SubsetSize
          /\ Cardinality(targets) = SubsetSize
          /\ \A i \in targets : InRange(bots, i) /\ Eligible(Get(bots, i))
      ]_vars

\* C16: in a multiple-bots dispatch over a pool of pairwise different
\* messages that is at least as long as the target list (and longer than
\* one), no two targets receive the same message.
C16_NoRepeatedMessage ==
    [][ (/\ SubsetDispatch
         /\ ~panicked'
         /\ Len(messages) > 1
         /\ PairwiseDifferent(messages)
         /\ Len(messages) >= SubsetSize)
            => /\ \A t \in BagToSet(NewSends) : CopiesIn(t, NewSends) = 1
               /\ \A t, u \in BagToSet(NewSends) : t # u => t.message # u.message
      ]_vars

\* a dispatch handler with a target loop
MultiTargetDispatch ==
    \/ SendMessageAllBots
    \/ /\ \E o \in Origins : SendRandomMessage(o)
       /\ multiple_bots_mode \/ all_bots_mode

AllBotsDispatch ==
    /\ channel # <<>>
    /\ available_bots(bots) # <<>>
    /\ \/ SendMessageAllBots /\ message # <<>>
       \/ /\ \E o \in Origins : SendRandomMessage(o)
          /\ all_bots_mode
          /\ ~multiple_bots_mode
          /\ messages # <<>>

\* the number of sends a step has launched for bots[k]
LaunchedFor(k) == Copies(NewSends, {t \in BagToSet(NewSends) : t.index = k - 1})

\* C18: an all-bots dispatch launches exactly one send and appends exactly
\* one attempt entry for every eligible bot, none for any other bot, and all
\* its sends carry the same message.
C18_AllEligibleTargeted ==
    [][ AllBotsDispatch =>
          /\ \A k \in 1..Len(bots) :
                IF Eligible(bots[k])
                THEN /\ LaunchedFor(k) = 1
                     /\ Len(bots'[k].chat_history) = Len(bots[k].chat_history) + 1
                ELSE /\ LaunchedFor(k) = 0
                     /\ bots'[k].chat_history = bots[k].chat_history
          /\ Len(chat_history') = Len(chat_history) + Len(available_bots(bots))
          /\ \A t, u \in BagToSet(NewSends) : t.message = u.message
      ]_vars

\* ----------------------------------------------------------- registry spec
\* Credential loads, probe rounds and single-bot sends from the state after
\* construction; the server may refuse a join.
RegistryNext ==
    \/ \E t \in ConfigTexts : LoadedConfig(t)
    \/ CheckBotsPress
    \/ \E p \in BagToSet(probes), flag \in BOOLEAN : BotChecked(p, flag)
    \/ \E i \in Indices : SendMessage(i)
    \/ \E t \in BagToSet(sends), r \in SendResults : MessageSent(t, r)

RegistrySpec == Init /\ [][RegistryNext]_vars

\* C13: when a send fails, the error entry is appended to the global log
\* (whose earlier entries stay) and to the history of the bot that performed
\* the send, whatever was handled between the launch and the result.
C13_ErrorToSendingBot ==
    [][ \A t \in BagToSet(sends) :
          MessageSent(t, Some(JoinError)) =>
            /\ chat_history' = Append(chat_history, ErrorEntry(JoinError))
            /\ InRange(bots, t.index)
            /\ Get(bots, t.index).name = t.name
            /\ Get(bots, t.index).token = t.token
            /\ Get(bots', t.index).chat_history =
                   Append(Get(bots, t.index).chat_history, ErrorEntry(JoinError))
      ]_vars

\* ----------------------------------------------------------- session specs
\* what a server can send during the join wait
ServerLines ==
    { <<"PING", " ", ":", "t", "\n">>,
      <<"PING", " ", ":", "366", "\n">>,
      <<":", "t", " ", "366", " ", "c", "\n">>,
      <<":", "t", " ", "End of /NAMES list", "\n">>,
      <<":", "t", " ", "0", "\n">> }

\* what a server can answer to PASS and NICK
ProbeResponses ==
    { <<":tmi.twitch.tv 001", " ", "A">>,
      <<":", "t", " ", "Welcome">>,
      <<":", "t", " ", "Login authentication failed">>,
      <<"Login unsuccessful">>,
      <<"Welcome", " ", "Login authentication failed">>,
      <<"x">>,
      <<>> }

\* One call of send_message_to_channel after another, against every server.
SendSessionNext ==
    \/ \E ok \in BOOLEAN : SendConnect(<<"A">>, <<"t">>, <<"c">>, <<"h">>, ok)
    \/ \E ok \in BOOLEAN : SendWrite(ok)
    \/ SendExpire
    \/ SendLoop
    \/ \E line \in ServerLines : SendReadLine(line)
    \/ SendReadEof
    \/ SendReadError
    \/ SendSleep
    \/ SendClose

SendSessionSpec == Init /\ [][SendSessionNext]_vars

\* The same, where the session's own steps are taken, its writes and sleeps
\* complete and time passes; the server owes nothing.
SendSessionLiveSpec ==
    /\ Init
    /\ [][SendSessionNext]_vars
    /\ WF_vars(\E ok \in BOOLEAN : SendWrite(ok))
    /\ WF_vars(SendExpire)
    /\ WF_vars(SendLoop)
    /\ WF_vars(SendSleep)

\* One call of test_irc_connection after another, against every server.
ProbeNames == {<<"A">>, <<"b", "o", "t", "_", "1">>, <<"b", "o", "t", "_", "2">>}
ProbeTokens == {<<"t">>, <<"u">>, <<>>}

ProbeNext ==
    \/ \E n \in ProbeNames, t \in ProbeTokens : ProbeStart(n, t)
    \/ \E ok \in BOOLEAN : ProbeConnect(ok)
    \/ \E ok \in BOOLEAN : ProbeWrite(ok)
    \/ \E r \in ProbeResponses : ProbeRead(Some(r))
    \/ ProbeRead(None)
    \/ ProbeTimeout
    \/ ProbeClose

ProbeSpec == Init /\ [][ProbeNext]_vars

\* ---------------------------------------------------------- session claims
WrittenPrivmsg(sess) ==
    \E i \in 1..Len(sess.written) : StartsWith(sess.written[i], "PRIVMSG")

\* C22: a send session has written PRIVMSG only if it has read a join
\* confirmation line; a session whose join wait ended without one (the five
\* seconds ran out, or the server closed the stream) has returned an error
\* and has written no PRIVMSG.
C22_PrivmsgOnlyAfterJoin ==
    [][ /\ send_session'.pc # "idle" /\ WrittenPrivmsg(send_session')
            => /\ send_session'.joined
               /\ JoinConfirmed(send_session'.line)
        /\ (/\ send_session.pc \in {"wait", "read"}
            /\ send_session'.pc \notin {"wait", "read", "pong", "idle"}
            /\ ~JoinConfirmed(send_session'.line))
            => /\ send_session'.pc = "done"
               /\ send_session'.result # None
               /\ ~WrittenPrivmsg(send_session')
        /\ (send_session.pc = "done" /\ send_session.result # None)
            => ~WrittenPrivmsg(send_session)
      ]_vars

\* a session has read a PING and another line, then the join confirmation,
\* and has written PRIVMSG and returned Ok(())
C22_Witness ==
    /\ send_session.pc = "done"
    /\ send_session.result = None
    /\ send_session.joined
    /\ send_session.reads = 3
    /\ Len(send_session.written) = 5
    /\ StartsWith(send_session.written[4], "PONG")
    /\ send_session.written[5] = PrivmsgLine(<<"c">>, <<"h">>)

\* C23: every call of send returns: a session that has started reaches its
\* return (with Ok or with an error) whatever the server does, a server that
\* sends no line at all included.
C23_SendReturns ==
    (send_session.pc # "idle") ~> (send_session.pc = "done")

\* the step in which read_line hands the session a line of the server
ReceivedLine ==
    /\ send_session.pc = "read"
    /\ send_session'.pc # "idle"
    /\ send_session'.reads = send_session.reads + 1
    /\ Len(send_session'.line) > 0

\* C24: a line received during the join wait that begins with PING is
\* answered: the session's next step is the write of that line with PING
\* replaced by PONG, before it reads again or leaves the wait.
C24_PingAnswered ==
    [][ /\ (ReceivedLine /\ StartsWith(send_session'.line, "PING"))
            => send_session'.pc = "pong"
        /\ (send_session.pc = "pong" /\ send_session'.pc = "wait")
            => /\ send_session'.written = Append(send_session.written,
                      <<"PONG">> \o Tail(send_session.line))
               /\ send_session'.reads = send_session.reads
      ]_vars

\* C25: the connectivity probe always returns Ok with a boolean: true exactly
\* when a response was read and it contains ":tmi.twitch.tv 001" or
\* "Welcome"; false for a login-failure response, any other response, a
\* connect, write or read error, and expiry of the ten seconds.
C25_ProbeNeverErrors ==
    probe_session.pc = "done" =>
        /\ probe_session.result \in {Some(TRUE), Some(FALSE)}
        /\ probe_session.result = Some(TRUE) <=>
              /\ probe_session.response # None
              /\ \/ Contains(probe_session.response[1], ":tmi.twitch.tv 001")
                 \/ Contains(probe_session.response[1], "Welcome")
        /\ probe_session.response = None => Len(probe_session.written) <= 2

\* a probe that wrote PASS and NICK and read a welcome has returned true
C25_Witness ==
    /\ probe_session.pc = "done"
    /\ probe_session.result = Some(TRUE)
    /\ probe_session.response = Some(<<":", "t", " ", "Welcome">>)
    /\ Len(probe_session.written) = 2

\* ------------------------------------------------------------- parser spec
\* the shapes of one line of a credential file
ParserLines ==
    { <<>>, <<" ">>, <<"t">>, <<" ", "u", "\r">>, <<"t", "|", "A">>,
      <<"u", " ", "|", " ", "B", " ">>, <<"t", "|", " ">>, <<"|", "A", "|">>,
      <<"v", "|", "C">> }

\* credential files of one line and of two lines
ParserTexts ==
    ParserLines \cup {a \o <<"\n">> \o b : a \in ParserLines, b \in ParserLines}

\* One credential load after another.
ParserNext == \E content \in ParserTexts : LoadedConfig(content)

ParserSpec == Init /\ [][ParserNext]_vars

\* ----------------------------------------------------------- parser claims
\* What the format asks of a text, stated on the positions of the text.
SetMin(S) == CHOOSE x \in S : \A y \in S : x <= y
SetMax(S) == CHOOSE x \in S : \A y \in S : x >= y

\* the positions at which a line of text begins
LineStarts(text) == {p \in 1..Len(text) : p = 1 \/ text[p - 1] = "\n"}

\* the line that begins at p, without its line feed
LineAt(text, p) ==
    LET feeds == {i \in p..Len(text) : text[i] = "\n"}
    IN  SubSeq(text, p, IF feeds = {} THEN Len(text) ELSE SetMin(feeds) - 1)

Inked(l, a, b) == {i \in a..b : l[i] \notin {" ", "\t", "\r"}}
Trimmed(l, a, b) ==
    IF Inked(l, a, b) = {} THEN <<>>
    ELSE SubSeq(l, SetMin(Inked(l, a, b)), SetMax(Inked(l, a, b)))

Pipes(l) == {i \in 1..Len(l) : l[i] = "|"}
TokenPart(l) ==
    IF Pipes(l) = {} THEN Trimmed(l, 1, Len(l)) ELSE Trimmed(l, 1, SetMin(Pipes(l)) - 1)
NamePart(l) ==
    IF Pipes(l) = {} THEN <<>> ELSE Trimmed(l, SetMin(Pipes(l)) + 1, Len(l))

NonBlankStarts(text) ==
    {p \in LineStarts(text) : Inked(LineAt(text, p), 1, Len(LineAt(text, p))) # {}}
Unnamed(text) == {p \in NonBlankStarts(text) : NamePart(LineAt(text, p)) = <<>>}
Rank(text, p) == Cardinality({q \in NonBlankStarts(text) : q <= p})

\* the identifiers bot_<n> stands on in a registry
SynthIds(bs) ==
    {n \in 1..(MaxCounter + 1) : \E k \in 1..Len(bs) : bs[k].name = SynthName(n)}

\* C26: synthesized names never repeat.  Every identifier handed out so far
\* is below BOT_COUNTER; a load of a text with k lines lacking a name takes
\* the k identifiers from BOT_COUNTER on, one per such line, and leaves the
\* counter k higher; the counter never goes back.  So a synthesized name
\* differs from every other one of its load and of every earlier load.
C26_SynthNamesFresh ==
    [][ /\ BOT_COUNTER' >= BOT_COUNTER
        /\ \A n \in SynthIds(bots) : n < BOT_COUNTER
        /\ \A c \in ParserTexts : LoadedConfig(c) =>
              /\ SynthIds(bots') = BOT_COUNTER..(BOT_COUNTER' - 1)
              /\ BOT_COUNTER' = BOT_COUNTER + Cardinality(Unnamed(c))
              /\ \A k1, k2 \in 1..Len(bots') :
                    (k1 # k2 /\ \E n \in SynthIds(bots') : bots'[k1].name = SynthName(n))
                        => bots'[k2].name # bots'[k1].name
              /\ Cardinality({k \in 1..Len(bots') :
                       \E n \in SynthIds(bots') : bots'[k].name = SynthName(n)})
                    = Cardinality(Unnamed(c))
      ]_vars

\* a second load has synthesized bot_2 and bot_3 after a first load took bot_1
C26_Witness ==
    /\ Len(bots) = 2
    /\ bots[1].name = SynthName(2)
    /\ bots[2].name = SynthName(3)
    /\ BOT_COUNTER = 4

\* C27: no two bots of the registry have the same name.
C27_NamesUnique ==
    \A k1, k2 \in 1..Len(bots) : k1 # k2 => bots[k1].name # bots[k2].name

\* C28: the registry a load leaves holds, in the order of the text, one bot
\* for each non-blank line and none for a blank one; its token is the trimmed
\* part before the first "|" (the trimmed line when there is none), its name
\* the trimmed part after it, or bot_<n> when that part is missing or blank.
C28_ParserShape ==
    [][ \A c \in ParserTexts : LoadedConfig(c) =>
          /\ Len(bots') = Cardinality(NonBlankStarts(c))
          /\ \A p \in NonBlankStarts(c) :
                LET l == LineAt(c, p)
                    b == bots'[Rank(c, p)]
                IN  /\ b.token = TokenPart(l)
                    /\ NamePart(l) # <<>> => b.name = NamePart(l)
                    /\ NamePart(l) = <<>> =>
                          \E n \in BOT_COUNTER..(BOT_COUNTER' - 1) : b.name = SynthName(n)
      ]_vars

\* a text of the form "t|A\n u" has given A followed by one synthesized name
C28_Witness ==
    /\ Len(bots) = 2
    /\ bots[1].name = <<"A">> /\ bots[1].token = <<"t">>
    /\ bots[2].name = SynthName(BOT_COUNTER - 1) /\ bots[2].token = <<"u">>

\* ------------------------------------------------------------- reload spec
\* Credential loads among probes, sends, their results, the per-bot switch
\* and loads of the message pool.
ReloadNext ==
    \/ RegistryNext
    \/ \E i \in Indices, enabled \in BOOLEAN : ToggleBotEnabled(i, enabled)
    \/ \E t \in SchedPoolTexts : LoadedMessages(t)

ReloadSpec == Init /\ [][ReloadNext]_vars

\* C29: a credential load replaces the registry by the bots of the text,
\* each with available = false, enable = true and an empty history, whatever
\* the registry held before; the global log, the message pool, the inputs,
\* the modes and the scheduler state stay as they were.
C29_ReloadFresh ==
    [][ \A c \in ConfigTexts : LoadedConfig(c) =>
          /\ Len(bots') = Cardinality(NonBlankStarts(c))
          /\ \A k \in 1..Len(bots') :
                /\ ~bots'[k].available
                /\ bots'[k].enable
                /\ bots'[k].chat_history = <<>>
                /\ bots'[k].token = TokenPart(LineAt(c,
                       CHOOSE p \in NonBlankStarts(c) : Rank(c, p) = k))
          /\ UNCHANGED <<chat_history, inputs, modes, sched>>
      ]_vars

\* a registry fresh from a load, while the global log still holds the entries
\* of the bots that were there before and the pool is loaded
C29_Witness ==
    /\ Len(chat_history) = MaxLog
    /\ messages # <<>>
    /\ Len(bots) = 2
    /\ \A k \in 1..Len(bots) :
          ~bots[k].available /\ bots[k].enable /\ bots[k].chat_history = <<>>

\* ------------------------------------------------------------- cancel spec
\* The application after LoadedConfig(DispatchConfig), a probe round in which
\* both bots answered, a message, a channel and a pool of one message typed
\* in, both intervals set to one second, all-bots mode switched on and
\* simultaneous mode switched off (staggered sends).
CancelInit ==
    LET loaded == create_bots(DispatchConfig, BotCounterStart) IN
    /\ bots = [k \in 1..Len(loaded.bots) |-> [loaded.bots[k] EXCEPT !.available = TRUE]]
    /\ BOT_COUNTER = loaded.counter
    /\ chat_history = <<>>
    /\ message = <<"h">>
    /\ channel = <<"c">>
    /\ messages = NonBlankLines(<<"h">>)
    /\ bot_message_input = <<>>
    /\ random_messages_enabled = FALSE
    /\ min_interval = 1
    /\ max_interval = 1
    /\ next_message_time = None
    /\ last_message_time = None
    /\ all_bots_mode = TRUE
    /\ multiple_bots_mode = FALSE
    /\ simultaneous_mode = FALSE
    /\ min_bot_delay = DefaultMinBotDelay
    /\ max_bot_delay = DefaultMaxBotDelay
    /\ multiple_bots_count = DefaultMultipleBotsCount
    /\ clear_after_send = FALSE
    /\ pending = [o \in Origins |-> 0]
    /\ sends = EmptyBag
    /\ probes = EmptyBag
    /\ panicked = FALSE
    /\ expiry_fires = 0
    /\ viewing_bot_chat = None
    /\ send_session = IdleSend
    /\ probe_session = IdleProbe

\* Dispatches by hand and by the scheduler, among the switches of the
\* scheduler and of the bots, probe rounds, the passing of time and the
\* results of the sends.
CancelNext ==
    \/ SendMessageAllBots
    \/ \E enabled \in BOOLEAN : ToggleRandomMessages(enabled)
    \/ Tick(0)
    \/ SendRandomMessage("tick")
    \/ \E i \in Indices, enabled \in BOOLEAN : ToggleBotEnabled(i, enabled)
    \/ CheckBotsPress
    \/ \E p \in BagToSet(probes), flag \in BOOLEAN : BotChecked(p, flag)
    \/ \E t \in BagToSet(sends), r \in SendResults : MessageSent(t, r)
    \/ Advance

CancelSpec == CancelInit /\ [][CancelNext]_vars

\* the scheduler is switched off, a bot is disabled or a probe marks it
\* unavailable
DisableStep ==
    \/ ToggleRandomMessages(FALSE)
    \/ \E i \in Indices : ToggleBotEnabled(i, FALSE)
    \/ \E p \in BagToSet(probes) : BotChecked(p, FALSE)

\* C30: nothing withdraws a launched send.  Switching the scheduler off,
\* disabling a bot and marking a bot unavailable leave every send in flight
\* as it is, staggered ones included; a send leaves the flight only by
\* MessageSent handling its result; and a failure is written to the global
\* log and to the bot's history whatever the switches say by then.
C30_NoCancellation ==
    [][ /\ DisableStep => sends' = sends
        /\ BagCardinality(sends') >= BagCardinality(sends)
              \/ \E t \in BagToSet(sends), r \in SendResults :
                    /\ MessageSent(t, r)
                    /\ sends' (+) SetToBag({t}) = sends
        /\ \A t \in BagToSet(sends) :
              MessageSent(t, Some(JoinError)) =>
                  /\ chat_history' = Append(chat_history, ErrorEntry(JoinError))
                  /\ InRange(bots, t.index) =>
                        bots'[t.index + 1].chat_history =
                            Append(bots[t.index + 1].chat_history, ErrorEntry(JoinError))
      ]_vars

\* the scheduler is off and a staggered send is still waiting out its delay
\* for a bot that by now is disabled and unavailable
C30_Witness ==
    /\ ~random_messages_enabled
    /\ \E t \in BagToSet(sends) :
          /\ t.delay > 0
          /\ InRange(bots, t.index)
          /\ ~bots[t.index + 1].enable
          /\ ~bots[t.index + 1].available
    /\ chat_history # <<>>

\* --------------------------------------------------------------- view spec
\* credential files: two bots of one name, a named and an unnamed bot, one bot
ViewConfigs ==
    { <<"t", "|", "A", "\n", "u", "|", "A">>, DispatchConfig, <<"t", "|", "B">> }

\* The application after one of the credential files was loaded and every
\* bot answered its probe, with a message and a channel typed in.
ViewInit ==
    /\ \E c \in ViewConfigs :
          LET loaded == create_bots(c, BotCounterStart) IN
          /\ bots = [k \in 1..Len(loaded.bots) |->
                        [loaded.bots[k] EXCEPT !.available = TRUE]]
          /\ BOT_COUNTER = loaded.counter
    /\ chat_history = <<>>
    /\ message = <<"h">>
    /\ channel = <<"c">>
    /\ messages = <<>>
    /\ bot_message_input = <<>>
    /\ random_messages_enabled = FALSE
    /\ min_interval = DefaultMinInterval
    /\ max_interval = DefaultMaxInterval
    /\ next_message_time = None
    /\ last_message_time = None
    /\ all_bots_mode = FALSE
    /\ multiple_bots_mode = FALSE
    /\ simultaneous_mode = TRUE
    /\ min_bot_delay = DefaultMinBotDelay
    /\ max_bot_delay = DefaultMaxBotDelay
    /\ multiple_bots_count = DefaultMultipleBotsCount
    /\ clear_after_send = FALSE
    /\ pending = [o \in Origins |-> 0]
    /\ sends = EmptyBag
    /\ probes = EmptyBag
    /\ panicked = FALSE
    /\ expiry_fires = 0
    /\ viewing_bot_chat = None
    /\ send_session = IdleSend
    /\ probe_session = IdleProbe

\* Sends and their results fill the log; the user opens and closes detail
\* views, clicks log entries, clears the log and loads credential files; the
\* runtime draws the window.
ViewNext ==
    \/ \E i \in 0..(Len(bots) - 1) : SendMessage(i)
    \/ SendMessageRandomBot
    \/ \E t \in BagToSet(sends), r \in SendResults : MessageSent(t, r)
    \/ \E c \in ViewConfigs : LoadedConfig(c)
    \/ \E i \in 0..(Len(bots) - 1) : ToggleBotChatView(i)
    \/ CloseBotChatView
    \/ \E k \in 0..MaxLog : MessageClicked(k)
    \/ \E m \in Texts : BotMessageUpdated(m)
    \/ ClearGlobalHistory
    \/ Render

ViewSpec == ViewInit /\ [][ViewNext]_vars

\* ------------------------------------------------------------- view claims
\* the entry is an attempt entry of a bot called name: "[name] .." or
\* "[<die> name] .."
EntryOf(entry, name) ==
    \E j \in 1..Len(entry) :
        \/ SubSeq(entry, 1, j) = <<"[">> \o name \o <<"]">>
        \/ SubSeq(entry, 1, j) = <<"[", Dice, " ">> \o name \o <<"]">>

\* the bots (1-based) the entry at index k of the global log names
NamedBy(k) ==
    IF InRange(chat_history, k)
    THEN {i \in 1..Len(bots) : EntryOf(Get(chat_history, k), bots[i].name)}
    ELSE {}

\* C31: a click on a log entry opens the detail view of the first bot of the
\* registry whose name stands in the entry's brackets and empties the detail
\* view's input; when no bot has that name, the entry has no bracketed name
\* or there is no such entry, the viewed bot and the input stay as they were.
C31_ClickFirstMatch ==
    [][ \A k \in 0..MaxLog : MessageClicked(k) =>
          IF NamedBy(k) # {}
          THEN /\ viewing_bot_chat' = Some(SetMin(NamedBy(k)) - 1)
               /\ bot_message_input' = <<>>
          ELSE UNCHANGED <<viewing_bot_chat, bot_message_input>>
      ]_vars

\* the second of two bots called A has an entry in the log, a click on the
\* log has opened the first one's view
C31_Witness ==
    /\ Len(bots) = 2
    /\ bots[1].name = bots[2].name
    /\ bots[1].chat_history = <<>>
    /\ bots[2].chat_history # <<>>
    /\ chat_history = bots[2].chat_history
    /\ viewing_bot_chat = Some(0)

\* C36: the index of the open detail view is an index of the registry.
C36_ViewIndexValid ==
    viewing_bot_chat # None => InRange(bots, viewing_bot_chat[1])

\* -------------------------------------------------------------- clear spec
\* Sends and their results fill the histories, the user switches bots and the
\* scheduler and clears histories.
ClearNext ==
    \/ \E i \in Indices : SendMessage(i)
    \/ \E t \in BagToSet(sends), r \in SendResults : MessageSent(t, r)
    \/ \E i \in Indices, enabled \in BOOLEAN : ToggleBotEnabled(i, enabled)
    \/ \E enabled \in BOOLEAN : ToggleRandomMessages(enabled)
    \/ \E i \in Indices : ClearBotHistory(i)
    \/ ClearGlobalHistory
    \/ ClearAllHistory

ClearSpec == CancelInit /\ [][ClearNext]_vars

\* bot k keeps its name, token and flags
SameIdentity(k) ==
    /\ bots'[k].name = bots[k].name
    /\ bots'[k].token = bots[k].token
    /\ bots'[k].available = bots[k].available
    /\ bots'[k].enable = bots[k].enable

\* C32: the clear operations touch only their target.  ClearBotHistory(i)
\* empties bot i's history and leaves the global log and the other bots'
\* histories alone, and changes nothing for an index outside the registry;
\* ClearGlobalHistory empties the global log and leaves the bots alone;
\* ClearAllHistory empties the global log and every bot's history.  None of
\* them changes a name, a token, an availability or enable flag, the
\* scheduler state, the inputs, the modes or the tasks in flight.
C32_ClearsOnlyTarget ==
    [][ /\ \A i \in Indices : ClearBotHistory(i) =>
              /\ Len(bots') = Len(bots)
              /\ \A k \in 1..Len(bots) :
                    /\ SameIdentity(k)
                    /\ bots'[k].chat_history =
                          IF k = i + 1 THEN <<>> ELSE bots[k].chat_history
              /\ UNCHANGED <<BOT_COUNTER, chat_history, inputs, sched, modes, runtime, view>>
        /\ ClearGlobalHistory =>
              /\ chat_history' = <<>>
              /\ UNCHANGED <<registry, inputs, sched, modes, runtime, view>>
        /\ ClearAllHistory =>
              /\ chat_history' = <<>>
              /\ Len(bots') = Len(bots)
              /\ \A k \in 1..Len(bots) :
                    SameIdentity(k) /\ bots'[k].chat_history = <<>>
              /\ UNCHANGED <<BOT_COUNTER, inputs, sched, modes, runtime, view>>
      ]_vars

\* bot 0's history was cleared: it is empty while its entry is still in the
\* global log and the other bot's history is still there; the bot is disabled
\* and the scheduler armed as before
C32_Witness ==
    /\ Len(bots) = 2
    /\ bots[1].chat_history = <<>>
    /\ bots[2].chat_history # <<>>
    /\ Len(chat_history) = 2
    /\ \E k \in 0..1 : EntryOf(Get(chat_history, k), bots[1].name)
    /\ ~bots[1].enable
    /\ random_messages_enabled
    /\ next_message_time # None

\* C33: what a send session has written is PASS, NICK, JOIN in this order,
\* then PONG lines, then at most one PRIVMSG as the last line; a call starts
\* on a connection nothing was written to, and once it has returned nothing
\* more is written: the next call connects afresh.
C33_OutboundOrder ==
    [][ /\ send_session'.pc # "idle" =>
              LET w == send_session'.written IN
              /\ Len(w) >= 1 => w[1] = PassLine(send_session'.oauth)
              /\ Len(w) >= 2 => w[2] = NickLine(send_session'.nickname)
              /\ Len(w) >= 3 => w[3] = JoinLine(send_session'.channel)
              /\ \A i \in 4..Len(w) :
                    \/ StartsWith(w[i], "PONG")
                    \/ /\ i = Len(w)
                       /\ w[i] = PrivmsgLine(send_session'.channel, send_session'.message)
        /\ (send_session.pc = "idle" /\ send_session'.pc # "idle")
              => send_session'.written = <<>>
        /\ (send_session.pc = "done" /\ send_session' # send_session)
              => send_session' = IdleSend
      ]_vars

\* a call that answered two PINGs, got the join confirmation, wrote its
\* message and returned
C33_Witness ==
    /\ send_session.pc = "done"
    /\ Len(send_session.written) = 6
    /\ StartsWith(send_session.written[4], "PONG")
    /\ StartsWith(send_session.written[5], "PONG")
    /\ StartsWith(send_session.written[6], "PRIVMSG")

\* -------------------------------------------------------------- stale spec
\* Credential loads, probe rounds and the delivery of probe results, in any
\* order.
StaleNext ==
    \/ \E c \in ViewConfigs : LoadedConfig(c)
    \/ CheckBotsPress
    \/ \E p \in BagToSet(probes), flag \in BOOLEAN : BotChecked(p, flag)

StaleSpec == Init /\ [][StaleNext]_vars

\* C34: a probe result that reports success sets the available flag of the
\* bot the probe was run for: the bot at the result's index has the name and
\* the token the probe logged in with.
C34_ProbeMatchesBot ==
    [][ \A p \in BagToSet(probes) :
          (BotChecked(p, TRUE) /\ InRange(bots, p.index)) =>
              /\ bots'[p.index + 1].available
              /\ bots'[p.index + 1].name = p.name
              /\ bots'[p.index + 1].token = p.token
      ]_vars

\* ----------------------------------------------------------- settings spec
\* The user switches the modes and the scheduler and types into the number
\* fields; "send random now" dispatches under the settings of the moment.
SettingsNext ==
    \/ \E enabled \in BOOLEAN : ToggleAllBotsMode(enabled)
    \/ \E enabled \in BOOLEAN : ToggleMultipleBotsMode(enabled)
    \/ \E v \in {<<"0">>, <<"1">>, <<"x">>, <<>>} : MultipleBotsCountUpdated(v)
    \/ \E v \in SchedNumberTexts : MinIntervalUpdated(v)
    \/ \E v \in SchedNumberTexts : MaxIntervalUpdated(v)
    \/ \E v \in SchedNumberTexts : MinBotDelayUpdated(v)
    \/ \E v \in SchedNumberTexts : MaxBotDelayUpdated(v)
    \/ \E enabled \in BOOLEAN : ToggleRandomMessages(enabled)
    \/ SendRandomMessageNow
    \/ SendRandomMessage("now")
    \/ \E t \in BagToSet(sends) : MessageSent(t, None)
    \/ ClearAllHistory

SettingsSpec == CancelInit /\ [][SettingsNext]_vars

\* C35: all-bots mode and multiple-bots mode are never both on: switching
\* one on switches the other off, switching one off leaves the other as it is.
C35_ModesExclusive ==
    [][ /\ ~(all_bots_mode' /\ multiple_bots_mode')
        /\ ToggleAllBotsMode(TRUE) => (all_bots_mode' /\ ~multiple_bots_mode')
        /\ ToggleMultipleBotsMode(TRUE) => (multiple_bots_mode' /\ ~all_bots_mode')
        /\ ToggleAllBotsMode(FALSE) =>
              (~all_bots_mode' /\ multiple_bots_mode' = multiple_bots_mode)
        /\ ToggleMultipleBotsMode(FALSE) =>
              (~multiple_bots_mode' /\ all_bots_mode' = all_bots_mode)
      ]_vars

\* multiple-bots mode was switched on while all-bots mode was on
C35_Witness ==
    /\ multiple_bots_mode
    /\ ~all_bots_mode
    /\ chat_history = <<>>
    /\ multiple_bots_count = DefaultMultipleBotsCount

\* C38: the subset size is at least 1: an update with "0" or with a text that
\* is no number leaves it unchanged, and a multiple-bots dispatch with a pool,
\* a channel and an eligible bot selects at least one target (its attempt
\* entry is in the global log).
C38_SubsetSizePositive ==
    [][ /\ multiple_bots_count' >= 1
        /\ \A v \in {<<"0">>, <<"x">>, <<>>} :
              MultipleBotsCountUpdated(v) => multiple_bots_count' = multiple_bots_count
        /\ (/\ SendRandomMessage("now")
            /\ multiple_bots_mode
            /\ messages # <<>> /\ channel # <<>>
            /\ \E k \in 1..Len(bots) : ~FailsPredicate(k))
              => Len(chat_history') >= Len(chat_history) + 1
      ]_vars

\* the subset size was set to 1 and a multiple-bots dispatch has targeted
\* one bot
C38_Witness ==
    /\ multiple_bots_mode
    /\ multiple_bots_count = 1
    /\ Len(chat_history) = 1
    /\ BagCardinality(sends) = 1
    /\ ~panicked

\* C40: a step that changes an interval bound changes neither the pending
\* fire time nor the enabled flag, and an update of an interval or delay bound
\* with a text that is no number ("x") leaves the bound as it is.
C40_BoundsUpdateFrame ==
    [][ /\ (min_interval' # min_interval \/ max_interval' # max_interval) =>
              /\ next_message_time' = next_message_time
              /\ random_messages_enabled' = random_messages_enabled
        /\ MinIntervalUpdated(<<"x">>) => min_interval' = min_interval
        /\ MaxIntervalUpdated(<<"x">>) => max_interval' = max_interval
        /\ MinBotDelayUpdated(<<"x">>) => min_bot_delay' = min_bot_delay
        /\ MaxBotDelayUpdated(<<"x">>) => max_bot_delay' = max_bot_delay
      ]_vars

\* the scheduler was armed under the bounds 1..1 and both bounds were then
\* set to 0: the pending fire is still the one drawn from the old bounds
C40_Witness ==
    /\ random_messages_enabled
    /\ next_message_time = Some(1)
    /\ min_interval = 0
    /\ max_interval = 0

\* C37: a staggered dispatch to several targets does not panic, whatever
\* delay bounds are stored (min_bot_delay > max_bot_delay included), and
\* launches one send for each target it has logged an attempt for.
C37_DelayBoundsTolerated ==
    [][ (MultiTargetDispatch /\ ~simultaneous_mode) =>
          /\ ~panicked'
          /\ BagCardinality(NewSends) = Len(chat_history') - Len(chat_history)
      ]_vars

\* a is b with some of its elements left out
RECURSIVE IsSubsequence(_, _)
IsSubsequence(a, b) ==
    IF a = <<>> THEN TRUE
    ELSE IF b = <<>> THEN FALSE
    ELSE IF Head(a) = Head(b) THEN IsSubsequence(Tail(a), Tail(b))
    ELSE IsSubsequence(a, Tail(b))

RECURSIVE HistoryTotal(_)
HistoryTotal(k) == IF k = 0 THEN 0 ELSE Len(bots[k].chat_history) + HistoryTotal(k - 1)

\* C39: without clear operations and reloads, every bot's history is a
\* subsequence of the global log and the global log is as long as all the
\* bot histories together: each attempt entry and each error entry went to
\* the global log and to one bot's history.
C39_HistoriesPartitionLog ==
    /\ Len(chat_history) = HistoryTotal(Len(bots))
    /\ \A k \in 1..Len(bots) : IsSubsequence(bots[k].chat_history, chat_history)

\* the second bot's attempt and the failure of its send are in the global
\* log and in its history, and nowhere else
C39_Witness ==
    /\ Len(bots) = 2
    /\ Len(chat_history) = 2
    /\ chat_history[2] = ErrorEntry(JoinError)
    /\ bots[2].chat_history = chat_history
    /\ bots[1].chat_history = <<>>

\* --------------------------------------------------------- whole application
\* Every handler with every input; SchedNext, LiveNext and DispatchNext are
\* restrictions of it.
Next ==
    \/ \E t \in ConfigTexts : LoadedConfig(t)
    \/ CheckBotsPress
    \/ \E p \in BagToSet(probes), flag \in BOOLEAN : BotChecked(p, flag)
    \/ \E i \in Indices, e \in BOOLEAN : ToggleBotEnabled(i, e)
    \/ \E m \in Texts : MessageUpdated(m)
    \/ \E c \in Channels : ChannelNameUpdated(c)
    \/ \E m \in Texts : BotMessageUpdated(m)
    \/ \E t \in PoolTexts : LoadedMessages(t)
    \/ \E i \in Indices : SendMessage(i)
    \/ \E i \in Indices : SendBotMessage(i)
    \/ SendMessageRandomBot
    \/ SendMessageAllBots
    \/ \E t \in BagToSet(sends), r \in {None} \cup {Some(e) : e \in SendErrors} :
           MessageSent(t, r)
    \/ \E e \in BOOLEAN : ToggleRandomMessages(e)
    \/ \E v \in NumberTexts : MinIntervalUpdated(v)
    \/ \E v \in NumberTexts : MaxIntervalUpdated(v)
    \/ Tick(0)
    \/ SendRandomMessageNow
    \/ \E o \in Origins : SendRandomMessage(o)
    \/ \E e \in BOOLEAN : ToggleAllBotsMode(e)
    \/ \E e \in BOOLEAN : ToggleMultipleBotsMode(e)
    \/ \E e \in BOOLEAN : ToggleSimultaneousMode(e)
    \/ \E v \in NumberTexts : MinBotDelayUpdated(v)
    \/ \E v \in NumberTexts : MaxBotDelayUpdated(v)
    \/ \E v \in NumberTexts : MultipleBotsCountUpdated(v)
    \/ \E e \in BOOLEAN : ToggleClearAfterSend(e)
    \/ \E i \in Indices : ClearBotHistory(i)
    \/ ClearGlobalHistory
    \/ ClearAllHistory
    \/ Advance
    \/ SendSessionNext
    \/ ProbeNext
    \/ \E i \in 0..(Len(bots) - 1) : ToggleBotChatView(i)
    \/ CloseBotChatView
    \/ \E k \in 0..MaxLog : MessageClicked(k)
    \/ Render

Spec == Init /\ [][Next]_vars

====
